---- MODULE Spec2Model ----
(***************************************************************************)
(* ShadowLend: confidential lending ledger.                                *)
(*                                                                         *)
(* The model covers the on-ledger program: the request handlers of         *)
(* instructions/*/handler.rs, the callback handlers of                     *)
(* instructions/*/callback.rs and the callback entry points of lib.rs.     *)
(* The confidential cluster is the environment: it delivers one signed     *)
(* output per queued computation; anybody may resubmit a signed output     *)
(* that was already accepted, or submit a payload with a bad signature.    *)
(*                                                                         *)
(* One instruction is one atomic ledger transaction.  Each instruction is  *)
(* a function from the accounts and its inputs to a return code and the    *)
(* accounts it leaves; an instruction that returns an error leaves every   *)
(* account as it was.                                                      *)
(***************************************************************************)
EXTENDS Integers, Sequences, FiniteSets, TLC

VARIABLES
    obl,        \* UserObligation account of each user
    pool,       \* Pool account
    coll,       \* collateral-mint token balances, by holder
    bor,        \* borrow-mint token balances, by holder
    comps,      \* computations queued on the cluster, by computation offset
    delivered,  \* the last signed output that a callback accepted
    mxe         \* the cluster's last circuit evaluation, on plaintext states

vars == <<obl, pool, coll, bor, comps, delivered, mxe>>

----------------------------------------------------------------------------
(* Bounds of the model *)

MaxAmount == 1          \* plaintext amounts and revealed words are 0..MaxAmount
MaxComps == 2           \* computation offsets are 1..MaxComps
MaxNonce == 2           \* width of the state_nonce counter in the model
InitUserColl == 2       \* collateral tokens a user starts with
InitBor == 1            \* borrow tokens each holder starts with

Users == {"u1"}
Liquidator == "liquidator"
Vault == "vault"
Holders == Users \cup {Liquidator, Vault}

\* ciphertext words: the zero word and a non-zero word
Ciphers == {0, 1}
Amounts == 0..MaxAmount
Offsets == 1..MaxComps

----------------------------------------------------------------------------
(* Program constants *)

MAX_PRICE_AGE_SECONDS == 30

\* ages (clock.unix_timestamp - publish_time) of the price updates a request reads
PriceAges == {MAX_PRICE_AGE_SECONDS, MAX_PRICE_AGE_SECONDS + 1}

----------------------------------------------------------------------------
(* Bytes of a 32-byte word.  A word is modelled by the number its  *)
(* little-endian bytes encode; the words of the model fit in their *)
(* low eight bytes.                                                *)

\* a first byte that is never zero
FirstByteSet(w) == 1

\* word[0]: the first byte
FirstByte(w) == w % 256

\* a decoding that doubles the value
U64FromLeDoubled(w) == 2 * w

\* u64::from_le_bytes(word[0..8])
U64FromLe(w) == w

RECURSIVE BitXor(_, _)
BitXor(a, b) ==
    IF a = 0 THEN b
    ELSE IF b = 0 THEN a
    ELSE 2 * BitXor(a \div 2, b \div 2) + ((a + b) % 2)

\* first four words of a ciphertext list: ciphertexts[..4]
Take4(cts) == SubSeq(cts, 1, 4)

----------------------------------------------------------------------------
(* Commitments.  A digest is a tuple: keccak256 is collision resistant, *)
(* so its digest stands for its pre-image; the XOR fold of the bytes    *)
(* into 32 bytes is the XOR of the four words.                          *)

ZeroCommit == <<0, 0>>

\* hashv(&[bytes]).to_bytes()
Keccak256(blob) == <<1>> \o blob

\* commitment[i % 32] ^= byte
XorFold(blob) ==
    <<0, BitXor(BitXor(blob[1], blob[2]), BitXor(blob[3], blob[4]))>>

----------------------------------------------------------------------------
(* Accounts *)

ZeroBlob == <<0, 0, 0, 0>>

NewObligation ==
    [ created                |-> FALSE,
      encrypted_state_blob   |-> ZeroBlob,
      state_commitment       |-> ZeroCommit,
      user_state_initialized |-> FALSE,
      total_funded           |-> 0,
      total_claimed          |-> 0,
      state_nonce            |-> 0 ]

NewPool ==
    [ encrypted_pool_state   |-> <<>>,
      pool_state_commitment  |-> ZeroCommit,
      pool_state_initialized |-> FALSE,
      total_deposits         |-> 0,
      vault_nonce            |-> 0 ]

NoPayload == [cts |-> <<>>, pool |-> <<>>, flag |-> 0, amount |-> 0, amount2 |-> 0]

NoDelivery == [offset |-> 0, op |-> "none", payload |-> NoPayload]

\* the cluster has evaluated nothing
NoEvaluation == [op |-> "none"]

Init ==
    /\ obl = [u \in Users |-> NewObligation]
    /\ pool = NewPool
    /\ coll = [h \in Holders |-> IF h \in Users THEN InitUserColl ELSE 0]
    /\ bor = [h \in Holders |-> InitBor]
    /\ comps = <<>>
    /\ delivered = NoDelivery
    /\ mxe = NoEvaluation

----------------------------------------------------------------------------
(* Collaborators *)

\* token::transfer: moves amount from one holder to another
Moved(bal, from, to, amount) ==
    IF from = to THEN bal
    ELSE [bal EXCEPT ![from] = @ - amount, ![to] = @ + amount]

\* a transfer that never checks the source balance
HasFundsUnchecked(bal, from, amount) == TRUE

\* token::transfer fails when the source holds less than amount
HasFunds(bal, from, amount) == bal[from] >= amount

\* a staleness check that refuses a price of exactly the maximum age
PriceFreshStrict(age) == age < MAX_PRICE_AGE_SECONDS

\* get_price_from_pyth_account: the staleness check of one price update
PriceFresh(age) == age <= MAX_PRICE_AGE_SECONDS

\* queue_computation: registers the computation under the next offset
Queued(kind, user, payer, arg) ==
    Append(comps, [kind |-> kind, user |-> user, payer |-> payer, arg |-> arg,
                   status |-> "queued"])

----------------------------------------------------------------------------
(* Request handlers: instructions/*/handler.rs *)

\* what a request returns: its code and the accounts it leaves
Res(code, o, c, b, q) ==
    [code |-> code, obl |-> o, coll |-> c, bor |-> b, comps |-> q]

\* a request that returns an error: every account write is rolled back
Refused(code) == Res(code, obl, coll, bor, comps)

\* the transaction of a request commits what the handler leaves
Submit(out) ==
    /\ Len(comps) < MaxComps
    /\ obl' = out.obl
    /\ coll' = out.coll
    /\ bor' = out.bor
    /\ comps' = out.comps
    /\ UNCHANGED <<pool, delivered, mxe>>

\* Anchor refuses an instruction whose user_obligation account does not exist
Exists(u) == obl[u].created

\* encrypted_state_blob.is_empty()
IsEmpty(blob) == Len(blob) = 0

\* a deposit that resets the counter of an obligation that already exists
DepositOutResetsNonce(u, amount) ==
    IF ~(amount > 0) THEN Refused("InvalidDepositAmount")
    ELSE IF ~HasFunds(coll, u, amount) THEN Refused("InsufficientFunds")
    ELSE Res("Ok",
             [obl EXCEPT ![u] = [@ EXCEPT !.created = TRUE, !.state_nonce = 0,
                                          !.user_state_initialized = FALSE]],
             Moved(coll, u, Vault, amount), bor,
             Queued("deposit", u, u, amount))

DepositOut(u, amount) ==
    IF ~(amount > 0) THEN Refused("InvalidDepositAmount")
    ELSE IF ~HasFunds(coll, u, amount) THEN Refused("InsufficientFunds")
    ELSE Res("Ok",
             [obl EXCEPT ![u] =
                IF ~obl[u].created
                THEN [@ EXCEPT !.created = TRUE, !.state_nonce = 0,
                               !.user_state_initialized = FALSE]
                ELSE @],
             Moved(coll, u, Vault, amount), bor,
             Queued("deposit", u, u, amount))

deposit_handler(u, amount) == Submit(DepositOut(u, amount))

BorrowOut(u, encrypted_amount, sol_age, usdc_age) ==
    IF ~Exists(u) THEN Refused("AccountNotInitialized")
    ELSE IF encrypted_amount = 0 THEN Refused("InvalidBorrowAmount")
    ELSE IF ~obl[u].user_state_initialized THEN Refused("InvalidBorrowAmount")
    ELSE IF ~(PriceFresh(sol_age) /\ PriceFresh(usdc_age)) THEN Refused("StalePrice")
    ELSE Res("Ok", obl, coll, bor, Queued("borrow", u, u, encrypted_amount))

borrow_handler(u, encrypted_amount, sol_age, usdc_age) ==
    Submit(BorrowOut(u, encrypted_amount, sol_age, usdc_age))

WithdrawOut(u, encrypted_amount, sol_age, usdc_age) ==
    IF ~Exists(u) THEN Refused("AccountNotInitialized")
    ELSE IF encrypted_amount = 0 THEN Refused("InvalidWithdrawAmount")
    ELSE IF IsEmpty(obl[u].encrypted_state_blob) THEN Refused("InvalidWithdrawAmount")
    ELSE IF ~(PriceFresh(sol_age) /\ PriceFresh(usdc_age)) THEN Refused("StalePrice")
    ELSE Res("Ok", obl, coll, bor, Queued("withdraw", u, u, encrypted_amount))

withdraw_handler(u, encrypted_amount, sol_age, usdc_age) ==
    Submit(WithdrawOut(u, encrypted_amount, sol_age, usdc_age))

\* a repayment that takes any amount
RepayOutUnvalidated(u, amount) ==
    IF ~Exists(u) THEN Refused("AccountNotInitialized")
    ELSE IF ~obl[u].user_state_initialized THEN Refused("InvalidBorrowAmount")
    ELSE IF ~HasFunds(bor, u, amount) THEN Refused("InsufficientFunds")
    ELSE Res("Ok", obl, coll, Moved(bor, u, Vault, amount),
             Queued("repay", u, u, amount))

RepayOut(u, amount) ==
    IF ~Exists(u) THEN Refused("AccountNotInitialized")
    ELSE IF ~(amount > 0) THEN Refused("InvalidBorrowAmount")
    ELSE IF ~obl[u].user_state_initialized THEN Refused("InvalidBorrowAmount")
    ELSE IF ~HasFunds(bor, u, amount) THEN Refused("InsufficientFunds")
    ELSE Res("Ok", obl, coll, Moved(bor, u, Vault, amount),
             Queued("repay", u, u, amount))

repay_handler(u, amount) == Submit(RepayOut(u, amount))

LiquidateOut(u, repay_amount, sol_age, usdc_age) ==
    IF ~Exists(u) THEN Refused("AccountNotInitialized")
    ELSE IF ~(repay_amount > 0) THEN Refused("InvalidBorrowAmount")
    ELSE IF ~obl[u].user_state_initialized THEN Refused("InvalidBorrowAmount")
    ELSE IF ~HasFunds(bor, Liquidator, repay_amount) THEN Refused("InsufficientFunds")
    ELSE IF ~(PriceFresh(sol_age) /\ PriceFresh(usdc_age)) THEN Refused("StalePrice")
    ELSE Res("Ok", obl, coll, Moved(bor, Liquidator, Vault, repay_amount),
             Queued("liquidate", u, Liquidator, repay_amount))

liquidate_handler(u, repay_amount, sol_age, usdc_age) ==
    Submit(LiquidateOut(u, repay_amount, sol_age, usdc_age))

InterestOut(u) ==
    IF ~Exists(u) THEN Refused("AccountNotInitialized")
    ELSE IF ~obl[u].user_state_initialized THEN Refused("InvalidBorrowAmount")
    ELSE Res("Ok", obl, coll, bor, Queued("interest", u, u, 0))

update_interest_handler(u) == Submit(InterestOut(u))

----------------------------------------------------------------------------
(* Signed computation outputs *)

\* new user-state ciphertexts: four words
FullStates == {<<c, 0, 0, c>> : c \in Ciphers}

\* a user output cut short
ShortLists == {<<>>, <<1>>}

\* the words that follow the state: a flag, then revealed amounts
Tails(k) == {t \in [1..k -> Amounts] : k > 0 => t[1] \in {0, 1}}

\* pool-output ciphertext lists: none, or the four words of the pool state
PoolOuts == {<<>>, <<1, 0, 0, 0>>}

Payload(cts, pool_output) ==
    [cts |-> cts, pool |-> pool_output, flag |-> 0, amount |-> 0, amount2 |-> 0]

\* outputs of the compute_confidential_* circuits, (user output, pool output):
\* of the arity the circuit returns (the state and one flag) and of the
\* arity its callback reads
HandlerPayloads(kind) ==
    LET states == IF kind \in {"deposit", "withdraw"}
                  THEN FullStates
                  ELSE FullStates \ {<<0, 0, 0, 0>>}
        tails == CASE kind = "borrow" -> Tails(1) \cup Tails(2)
                   [] kind = "liquidate" -> Tails(1) \cup Tails(3)
                   [] kind = "interest" -> Tails(1)
                   [] OTHER -> Tails(0) \cup Tails(1)
        lists == {st \o t : st \in states, t \in tails}
                   \cup (IF kind = "deposit" THEN ShortLists ELSE {})
        pools == IF kind \in {"repay", "liquidate", "interest"}
                 THEN PoolOuts
                 ELSE PoolOuts \ {<<>>}
    IN {Payload(c, po) : c \in lists, po \in pools}

\* a payload that was not signed by the cluster: it claims success and the
\* largest amounts
Forged(lib) ==
    IF lib
    THEN [cts |-> <<1, 1, 1>>, pool |-> <<>>, flag |-> 1,
          amount |-> MaxAmount, amount2 |-> MaxAmount]
    ELSE Payload(<<1, 1, 1, 1, 1, MaxAmount, MaxAmount>>, <<1, 0, 0, 0>>)

\* the payloads a callback can be invoked with
Deliveries(valid, signed, lib) == IF valid THEN signed ELSE {Forged(lib)}

\* state ciphertexts of the lib.rs outputs: c[0], c[1], c[2]
LibStates == {<<>>, <<1, 1, 1>>}

\* outputs of the lib.rs callbacks: state ciphertexts and the plaintext
\* fields of the output type
LibPayloads(kind) ==
    LET flags == IF kind \in {"borrow", "withdraw", "liquidate"} THEN {0, 1} ELSE {0}
        amts == IF kind \in {"withdraw", "liquidate"} THEN Amounts ELSE {0}
        amts2 == IF kind = "liquidate" THEN Amounts ELSE {0}
    IN [cts : LibStates, pool : {<<>>}, flag : flags, amount : amts, amount2 : amts2]

\* a verification that accepts every output
verify_outputSkipped(valid) == TRUE

\* output.verify_output(cluster_account, computation_account)
verify_output(valid) == valid

\* a counter that is never raised
NextNonceStuck(n) == n

\* state_nonce.checked_add(1) / state_nonce += 1
NextNonce(n) == n + 1

\* checked_add(1) == None, or the overflow panic of += 1
NonceOverflows(n) == n >= MaxNonce

Out(code, o, p, c, b) ==
    [code |-> code, obl |-> o, pool |-> p, coll |-> c, bor |-> b]

\* a verified delivery is the cluster's one callback, or a copy of the last accepted one
Deliverable(op, kind, o, p, valid) ==
    /\ o \in DOMAIN comps
    /\ comps[o].kind = kind
    /\ \/ ~valid
       \/ valid /\ comps[o].status = "queued"
       \/ valid /\ delivered = [offset |-> o, op |-> op, payload |-> p]

\* the transaction of a callback commits its writes, or rolls them back on an
\* error; the cluster records what its one delivery returned
Commit(op, o, p, valid, out) ==
    /\ comps' = IF valid /\ comps[o].status = "queued"
                THEN [comps EXCEPT ![o].status = out.code]
                ELSE comps
    /\ IF out.code = "Ok"
       THEN /\ obl' = [obl EXCEPT ![comps[o].user] = out.obl]
            /\ pool' = out.pool
            /\ coll' = out.coll
            /\ bor' = out.bor
            /\ delivered' = [offset |-> o, op |-> op, payload |-> p]
       ELSE UNCHANGED <<obl, pool, coll, bor, delivered>>
    /\ UNCHANGED mxe

----------------------------------------------------------------------------
(* Callback handlers: instructions/*/callback.rs *)

\* the obligation after a callback stored the new ciphertexts
StoreState(ob, cts, commitment) ==
    [ob EXCEPT !.state_nonce = NextNonce(@),
               !.encrypted_state_blob = Take4(cts),
               !.state_commitment = commitment]

\* a callback that stores the pool ciphertexts and leaves the commitment alone
StorePoolUncommitted(po, pool_output) ==
    [po EXCEPT !.encrypted_pool_state = Take4(pool_output),
               !.pool_state_initialized = TRUE]

\* the pool after a callback stored the new pool ciphertexts
StorePool(po, pool_output) ==
    [po EXCEPT !.encrypted_pool_state = Take4(pool_output),
               !.pool_state_initialized = TRUE,
               !.pool_state_commitment = Keccak256(Take4(pool_output))]

DepositCallbackOut(o, p, valid) ==
    LET u == comps[o].user
        ob == obl[u]
        cts == p.cts
        Err(code) == Out(code, ob, pool, coll, bor)
    IN
    IF ~verify_output(valid) THEN Err("AbortedComputation")
    ELSE IF Len(cts) = 0 THEN Err("InvalidComputationOutput")
    ELSE IF ~(FirstByte(cts[1]) # 0) THEN Err("InvalidDepositAmount")
    ELSE
      LET deposit_amount == U64FromLe(cts[Len(cts)])
      IN
      IF ~(deposit_amount > 0) THEN Err("InvalidDepositAmount")
      ELSE IF ~HasFunds(coll, u, deposit_amount) THEN Err("InsufficientFunds")
      ELSE IF NonceOverflows(ob.state_nonce) THEN Err("MathOverflow")
      ELSE IF Len(cts) < 4 THEN Err("Panic")
      ELSE Out("Ok",
               [StoreState(ob, cts, XorFold(Take4(cts)))
                  EXCEPT !.total_funded = @ + deposit_amount],
               pool, Moved(coll, u, Vault, deposit_amount), bor)

deposit_callback_handler(o, p, valid) ==
    /\ Deliverable("deposit_callback_handler", "deposit", o, p, valid)
    /\ Commit("deposit_callback_handler", o, p, valid, DepositCallbackOut(o, p, valid))

BorrowCallbackOut(o, p, valid) ==
    LET u == comps[o].user
        ob == obl[u]
        cts == p.cts
        Err(code) == Out(code, ob, pool, coll, bor)
    IN
    IF ~verify_output(valid) THEN Err("AbortedComputation")
    ELSE IF ~(Len(cts) >= 6) THEN Err("InvalidComputationOutput")
    ELSE IF ~(FirstByte(cts[5]) # 0) THEN Err("BorrowRejected")
    ELSE
      LET borrow_amount == U64FromLe(cts[6])
      IN
      IF ~(borrow_amount > 0) THEN Err("InvalidBorrowAmount")
      ELSE IF ~(bor[Vault] >= borrow_amount) THEN Err("InsufficientLiquidity")
      ELSE IF NonceOverflows(ob.state_nonce) THEN Err("MathOverflow")
      ELSE Out("Ok", StoreState(ob, cts, Keccak256(Take4(cts))),
               pool, coll, Moved(bor, Vault, u, borrow_amount))

borrow_callback_handler(o, p, valid) ==
    /\ Deliverable("borrow_callback_handler", "borrow", o, p, valid)
    /\ Commit("borrow_callback_handler", o, p, valid, BorrowCallbackOut(o, p, valid))

WithdrawCallbackOut(o, p, valid) ==
    LET u == comps[o].user
        ob == obl[u]
        cts == p.cts
        Err(code) == Out(code, ob, pool, coll, bor)
    IN
    IF ~verify_output(valid) THEN Err("AbortedComputation")
    ELSE IF Len(cts) = 0 THEN Err("InvalidComputationOutput")
    ELSE IF ~(FirstByte(cts[1]) # 0) THEN Err("WithdrawRejected")
    ELSE
      LET withdraw_amount == U64FromLe(cts[Len(cts)])
      IN
      IF ~(withdraw_amount > 0) THEN Err("InvalidWithdrawAmount")
      ELSE IF ~(coll[Vault] >= withdraw_amount) THEN Err("InsufficientLiquidity")
      ELSE IF NonceOverflows(ob.state_nonce) THEN Err("MathOverflow")
      ELSE IF Len(cts) < 4 THEN Err("Panic")
      ELSE Out("Ok",
               [StoreState(ob, cts, XorFold(Take4(cts)))
                  EXCEPT !.total_claimed = @ + withdraw_amount],
               pool, Moved(coll, Vault, u, withdraw_amount), bor)

withdraw_callback_handler(o, p, valid) ==
    /\ Deliverable("withdraw_callback_handler", "withdraw", o, p, valid)
    /\ Commit("withdraw_callback_handler", o, p, valid, WithdrawCallbackOut(o, p, valid))

RepayCallbackOut(o, p, valid) ==
    LET u == comps[o].user
        ob == obl[u]
        cts == p.cts
        Err(code) == Out(code, ob, pool, coll, bor)
    IN
    IF ~verify_output(valid) THEN Err("AbortedComputation")
    ELSE IF ~(Len(cts) >= 5) THEN Err("InvalidComputationOutput")
    ELSE IF ~(FirstByte(cts[5]) # 0) THEN Err("InvalidBorrowAmount")
    ELSE
      IF NonceOverflows(ob.state_nonce) THEN Err("MathOverflow")
      ELSE IF Len(p.pool) = 0 THEN Err("InvalidComputationOutput")
      ELSE Out("Ok", StoreState(ob, cts, Keccak256(Take4(cts))),
               StorePool(pool, p.pool), coll, bor)

repay_callback_handler(o, p, valid) ==
    /\ Deliverable("repay_callback_handler", "repay", o, p, valid)
    /\ Commit("repay_callback_handler", o, p, valid, RepayCallbackOut(o, p, valid))

LiquidateCallbackOut(o, p, valid) ==
    LET u == comps[o].user
        liquidator == comps[o].payer
        ob == obl[u]
        cts == p.cts
        Err(code) == Out(code, ob, pool, coll, bor)
    IN
    IF ~verify_output(valid) THEN Err("AbortedComputation")
    ELSE IF ~(Len(cts) >= 7) THEN Err("InvalidComputationOutput")
    ELSE
      LET is_liquidatable == FirstByte(cts[5]) # 0
          repay_amount == U64FromLe(cts[6])
          collateral_seized == U64FromLe(cts[7])
      IN
      IF is_liquidatable
      THEN IF ~(repay_amount > 0) THEN Err("InvalidBorrowAmount")
           ELSE IF ~(collateral_seized > 0) THEN Err("InvalidWithdrawAmount")
           ELSE IF ~(coll[Vault] >= collateral_seized) THEN Err("InsufficientLiquidity")
           ELSE IF NonceOverflows(ob.state_nonce) THEN Err("MathOverflow")
           ELSE IF Len(p.pool) = 0 THEN Err("InvalidComputationOutput")
           ELSE Out("Ok", StoreState(ob, cts, Keccak256(Take4(cts))),
                    StorePool(pool, p.pool),
                    Moved(coll, Vault, liquidator, collateral_seized), bor)
      ELSE IF repay_amount > 0
           THEN IF ~HasFunds(bor, Vault, repay_amount) THEN Err("InsufficientFunds")
                ELSE Out("Ok", ob, pool, coll,
                         Moved(bor, Vault, liquidator, repay_amount))
           ELSE Out("Ok", ob, pool, coll, bor)

liquidate_callback_handler(o, p, valid) ==
    /\ Deliverable("liquidate_callback_handler", "liquidate", o, p, valid)
    /\ Commit("liquidate_callback_handler", o, p, valid, LiquidateCallbackOut(o, p, valid))

InterestCallbackOut(o, p, valid) ==
    LET u == comps[o].user
        ob == obl[u]
        cts == p.cts
        Err(code) == Out(code, ob, pool, coll, bor)
    IN
    IF ~verify_output(valid) THEN Err("AbortedComputation")
    ELSE IF ~(Len(cts) >= 5) THEN Err("InvalidComputationOutput")
    ELSE IF NonceOverflows(ob.state_nonce) THEN Err("MathOverflow")
    ELSE IF Len(p.pool) = 0 THEN Err("InvalidComputationOutput")
    ELSE Out("Ok", StoreState(ob, cts, Keccak256(Take4(cts))),
             StorePool(pool, p.pool), coll, bor)

update_interest_callback_handler(o, p, valid) ==
    /\ Deliverable("update_interest_callback_handler", "interest", o, p, valid)
    /\ Commit("update_interest_callback_handler", o, p, valid, InterestCallbackOut(o, p, valid))

----------------------------------------------------------------------------
(* Callback entry points: lib.rs *)

\* encrypted_state[0..96].copy_from_slice(c[0], c[1], c[2]) when c.len() >= 3
CopyState(blob, c) ==
    IF Len(c) >= 3 THEN <<c[1], c[2], c[3], blob[4]>> ELSE blob

\* total_deposits.checked_sub(amount).unwrap_or(0)
SubOrZero(a, b) == IF a >= b THEN a - b ELSE 0

LibDepositOut(o, p, valid) ==
    LET ob == obl[comps[o].user]
        Err(code) == Out(code, ob, pool, coll, bor)
    IN
    IF ~verify_output(valid) THEN Err("AbortedComputation")
    ELSE IF NonceOverflows(ob.state_nonce) THEN Err("Panic")
    ELSE Out("Ok",
             [ob EXCEPT !.encrypted_state_blob = CopyState(@, p.cts),
                        !.user_state_initialized = TRUE,
                        !.state_nonce = NextNonce(@)],
             pool, coll, bor)

deposit_callback(o, p, valid) ==
    /\ Deliverable("deposit_callback", "deposit", o, p, valid)
    /\ Commit("deposit_callback", o, p, valid, LibDepositOut(o, p, valid))

LibBorrowOut(o, p, valid) ==
    LET ob == obl[comps[o].user]
        Err(code) == Out(code, ob, pool, coll, bor)
        approved == p.flag
    IN
    IF ~verify_output(valid) THEN Err("AbortedComputation")
    ELSE IF approved = 1
    THEN IF NonceOverflows(ob.state_nonce) THEN Err("Panic")
         ELSE Out("Ok",
                  [ob EXCEPT !.encrypted_state_blob = CopyState(@, p.cts),
                             !.state_nonce = NextNonce(@)],
                  pool, coll, bor)
    ELSE Out("Ok", ob, pool, coll, bor)

borrow_callback(o, p, valid) ==
    /\ Deliverable("borrow_callback", "borrow", o, p, valid)
    /\ Commit("borrow_callback", o, p, valid, LibBorrowOut(o, p, valid))

LibWithdrawOut(o, p, valid) ==
    LET u == comps[o].user
        ob == obl[u]
        Err(code) == Out(code, ob, pool, coll, bor)
        approved == p.flag
        amount == p.amount
    IN
    IF ~verify_output(valid) THEN Err("AbortedComputation")
    ELSE IF approved = 1
    THEN IF NonceOverflows(ob.state_nonce) THEN Err("Panic")
         ELSE IF ~HasFunds(coll, Vault, amount) THEN Err("InsufficientFunds")
         ELSE Out("Ok",
                  [ob EXCEPT !.encrypted_state_blob = CopyState(@, p.cts),
                             !.state_nonce = NextNonce(@)],
                  [pool EXCEPT !.total_deposits = SubOrZero(@, amount)],
                  Moved(coll, Vault, u, amount), bor)
    ELSE Out("Ok", ob, pool, coll, bor)

withdraw_callback(o, p, valid) ==
    /\ Deliverable("withdraw_callback", "withdraw", o, p, valid)
    /\ Commit("withdraw_callback", o, p, valid, LibWithdrawOut(o, p, valid))

LibRepayOut(o, p, valid) ==
    LET ob == obl[comps[o].user]
        Err(code) == Out(code, ob, pool, coll, bor)
    IN
    IF ~verify_output(valid) THEN Err("AbortedComputation")
    ELSE IF NonceOverflows(ob.state_nonce) THEN Err("Panic")
    ELSE Out("Ok",
             [ob EXCEPT !.encrypted_state_blob = CopyState(@, p.cts),
                        !.user_state_initialized = TRUE,
                        !.state_nonce = NextNonce(@)],
             pool, coll, bor)

repay_callback(o, p, valid) ==
    /\ Deliverable("repay_callback", "repay", o, p, valid)
    /\ Commit("repay_callback", o, p, valid, LibRepayOut(o, p, valid))

LibLiquidateOut(o, p, valid) ==
    LET liquidator == comps[o].payer
        ob == obl[comps[o].user]
        Err(code) == Out(code, ob, pool, coll, bor)
        is_liquidatable == p.flag
        seized_collateral == p.amount
        repaid_amount == p.amount2
        updated == [ob EXCEPT !.encrypted_state_blob = CopyState(@, p.cts),
                              !.state_nonce = NextNonce(@)]
    IN
    IF ~verify_output(valid) THEN Err("AbortedComputation")
    ELSE IF NonceOverflows(ob.state_nonce) THEN Err("Panic")
    ELSE IF is_liquidatable = 1
    THEN IF ~HasFunds(coll, Vault, seized_collateral) THEN Err("InsufficientFunds")
         ELSE Out("Ok", updated,
                  [pool EXCEPT !.total_deposits = SubOrZero(@, seized_collateral)],
                  Moved(coll, Vault, liquidator, seized_collateral), bor)
    ELSE IF ~HasFunds(bor, Vault, repaid_amount) THEN Err("InsufficientFunds")
         ELSE Out("Ok", updated, pool, coll,
                  Moved(bor, Vault, liquidator, repaid_amount))

liquidate_callback(o, p, valid) ==
    /\ Deliverable("liquidate_callback", "liquidate", o, p, valid)
    /\ Commit("liquidate_callback", o, p, valid, LibLiquidateOut(o, p, valid))

----------------------------------------------------------------------------
(* The ledger *)

\* the callback entry points of a computation kind
EntryPoints(kind) ==
    CASE kind = "deposit" -> {"deposit_callback_handler", "deposit_callback"}
      [] kind = "borrow" -> {"borrow_callback_handler", "borrow_callback"}
      [] kind = "withdraw" -> {"withdraw_callback_handler", "withdraw_callback"}
      [] kind = "repay" -> {"repay_callback_handler", "repay_callback"}
      [] kind = "liquidate" -> {"liquidate_callback_handler", "liquidate_callback"}
      [] kind = "interest" -> {"update_interest_callback_handler"}

\* what the entry point op returns for computation o on payload p
CallbackOut(op, o, p, valid) ==
    CASE op = "deposit_callback_handler" -> DepositCallbackOut(o, p, valid)
      [] op = "borrow_callback_handler" -> BorrowCallbackOut(o, p, valid)
      [] op = "withdraw_callback_handler" -> WithdrawCallbackOut(o, p, valid)
      [] op = "repay_callback_handler" -> RepayCallbackOut(o, p, valid)
      [] op = "liquidate_callback_handler" -> LiquidateCallbackOut(o, p, valid)
      [] op = "update_interest_callback_handler" -> InterestCallbackOut(o, p, valid)
      [] op = "deposit_callback" -> LibDepositOut(o, p, valid)
      [] op = "borrow_callback" -> LibBorrowOut(o, p, valid)
      [] op = "withdraw_callback" -> LibWithdrawOut(o, p, valid)
      [] op = "repay_callback" -> LibRepayOut(o, p, valid)
      [] op = "liquidate_callback" -> LibLiquidateOut(o, p, valid)

\* the instruction of the entry point op
Callback(op, o, p, valid) ==
    CASE op = "deposit_callback_handler" -> deposit_callback_handler(o, p, valid)
      [] op = "borrow_callback_handler" -> borrow_callback_handler(o, p, valid)
      [] op = "withdraw_callback_handler" -> withdraw_callback_handler(o, p, valid)
      [] op = "repay_callback_handler" -> repay_callback_handler(o, p, valid)
      [] op = "liquidate_callback_handler" -> liquidate_callback_handler(o, p, valid)
      [] op = "update_interest_callback_handler" ->
            update_interest_callback_handler(o, p, valid)
      [] op = "deposit_callback" -> deposit_callback(o, p, valid)
      [] op = "borrow_callback" -> borrow_callback(o, p, valid)
      [] op = "withdraw_callback" -> withdraw_callback(o, p, valid)
      [] op = "repay_callback" -> repay_callback(o, p, valid)
      [] op = "liquidate_callback" -> liquidate_callback(o, p, valid)

Request ==
    \E u \in Users :
        \/ \E amount \in Amounts : deposit_handler(u, amount)
        \/ \E amount \in Amounts : repay_handler(u, amount)
        \/ update_interest_handler(u)
        \/ \E c \in Ciphers, a1 \in PriceAges, a2 \in PriceAges :
              \/ borrow_handler(u, c, a1, a2)
              \/ withdraw_handler(u, c, a1, a2)
        \/ \E amount \in Amounts, a1 \in PriceAges, a2 \in PriceAges :
              liquidate_handler(u, amount, a1, a2)

\* the signed outputs that can reach entry point op of computation o: every
\* output while the cluster's one delivery is due, afterwards only the copy of
\* the output that op accepted last
Pending(o, op, kind, signed) ==
    IF o \notin DOMAIN comps \/ comps[o].kind # kind THEN {}
    ELSE IF comps[o].status = "queued" THEN signed
    ELSE IF delivered.offset = o /\ delivered.op = op THEN {delivered.payload}
    ELSE {}

HandlerCallback ==
    \E o \in Offsets, valid \in BOOLEAN :
        \/ \E p \in Deliveries(valid, Pending(o, "deposit_callback_handler", "deposit", HandlerPayloads("deposit")), FALSE) : deposit_callback_handler(o, p, valid)
        \/ \E p \in Deliveries(valid, Pending(o, "borrow_callback_handler", "borrow", HandlerPayloads("borrow")), FALSE) : borrow_callback_handler(o, p, valid)
        \/ \E p \in Deliveries(valid, Pending(o, "withdraw_callback_handler", "withdraw", HandlerPayloads("withdraw")), FALSE) : withdraw_callback_handler(o, p, valid)
        \/ \E p \in Deliveries(valid, Pending(o, "repay_callback_handler", "repay", HandlerPayloads("repay")), FALSE) : repay_callback_handler(o, p, valid)
        \/ \E p \in Deliveries(valid, Pending(o, "liquidate_callback_handler", "liquidate", HandlerPayloads("liquidate")), FALSE) : liquidate_callback_handler(o, p, valid)
        \/ \E p \in Deliveries(valid, Pending(o, "update_interest_callback_handler", "interest", HandlerPayloads("interest")), FALSE) :
              update_interest_callback_handler(o, p, valid)

LibCallback ==
    \E o \in Offsets, valid \in BOOLEAN :
        \/ \E p \in Deliveries(valid, Pending(o, "deposit_callback", "deposit", LibPayloads("deposit")), TRUE) : deposit_callback(o, p, valid)
        \/ \E p \in Deliveries(valid, Pending(o, "borrow_callback", "borrow", LibPayloads("borrow")), TRUE) : borrow_callback(o, p, valid)
        \/ \E p \in Deliveries(valid, Pending(o, "withdraw_callback", "withdraw", LibPayloads("withdraw")), TRUE) : withdraw_callback(o, p, valid)
        \/ \E p \in Deliveries(valid, Pending(o, "repay_callback", "repay", LibPayloads("repay")), TRUE) : repay_callback(o, p, valid)
        \/ \E p \in Deliveries(valid, Pending(o, "liquidate_callback", "liquidate", LibPayloads("liquidate")), TRUE) : liquidate_callback(o, p, valid)

Next == Request \/ HandlerCallback \/ LibCallback

Spec == Init /\ [][Next]_vars

----------------------------------------------------------------------------
(* Funding: instructions/fund/handler.rs *)

\* minimum funding amount
MIN_FUND_AMOUNT == 1000

\* cap on pool.vault_nonce, the count of fundings
MaxFunds == 1

\* funding amounts: just below the minimum, and the minimum
FundAmounts == {MIN_FUND_AMOUNT - 1, MIN_FUND_AMOUNT}

\* width of total_funded, a u64
FundedBits == 11

\* the largest total_funded
MaxFunded == 2 ^ FundedBits - 1

\* a funding that takes any amount
FundOutAnyAmount(u, amount) ==
    LET ob == obl[u]
        Err(code) == Out(code, ob, pool, coll, bor)
    IN
    IF ~Exists(u) THEN Err("AccountNotInitialized")
    ELSE IF ~HasFunds(coll, u, amount) THEN Err("InsufficientFunds")
    ELSE IF ob.total_funded + amount > MaxFunded THEN Err("MathOverflow")
    ELSE Out("Ok",
             [ob EXCEPT !.total_funded = @ + amount],
             [pool EXCEPT !.vault_nonce = @ + 1],
             Moved(coll, u, Vault, amount), bor)

FundOut(u, amount) ==
    LET ob == obl[u]
        Err(code) == Out(code, ob, pool, coll, bor)
    IN
    IF ~Exists(u) THEN Err("AccountNotInitialized")
    ELSE IF ~(amount >= MIN_FUND_AMOUNT) THEN Err("InvalidDepositAmount")
    ELSE IF ~HasFunds(coll, u, amount) THEN Err("InsufficientFunds")
    ELSE IF ob.total_funded + amount > MaxFunded THEN Err("MathOverflow")
    ELSE Out("Ok",
             [ob EXCEPT !.total_funded = @ + amount],
             [pool EXCEPT !.vault_nonce = @ + 1],
             Moved(coll, u, Vault, amount), bor)

fund_account_handler(u, amount) ==
    LET out == FundOut(u, amount)
    IN /\ pool.vault_nonce < MaxFunds
       /\ obl' = [obl EXCEPT ![u] = out.obl]
       /\ pool' = out.pool
       /\ coll' = out.coll
       /\ UNCHANGED <<bor, comps, delivered, mxe>>

\* a ledger whose users hold enough collateral tokens to fund their accounts
FundInit ==
    /\ obl = [u \in Users |-> NewObligation]
    /\ pool = NewPool
    /\ coll = [h \in Holders |-> IF h \in Users THEN MIN_FUND_AMOUNT + InitUserColl ELSE 0]
    /\ bor = [h \in Holders |-> InitBor]
    /\ comps = <<>>
    /\ delivered = NoDelivery
    /\ mxe = NoEvaluation

Fund == \E u \in Users, amount \in FundAmounts : fund_account_handler(u, amount)

\* no computation is waiting for its callback
Settled == \A o \in DOMAIN comps : comps[o].status # "queued"

\* the requests of this ledger: the one that creates the account, and
\* those made once the account was funded, each after the callback of the
\* one before it was delivered
FundRequest ==
    /\ Settled
    /\ pool.vault_nonce > 0 \/ \A u \in Users : ~Exists(u)
    /\ Request

FundNext == Fund \/ FundRequest \/ HandlerCallback \/ LibCallback

FundSpec == FundInit /\ [][FundNext]_vars

----------------------------------------------------------------------------
(* Circuits: encrypted-ixs/src/lib.rs.  The circuits compute on the        *)
(* plaintext UserState and PoolState inside the cluster.  Balances are     *)
(* u128 and prices, amounts and basis points u64; the values of the model  *)
(* are far below the widths, so that no sum or product wraps.              *)

\* balances of the starting states are 0..MaxBal
MaxBal == 2

\* prices are 0..MaxPrice
MaxPrice == 2

\* timestamps are whole years 0..MaxYears
MaxYears == 1

SECONDS_PER_YEAR == 31536000

Balances == 0..MaxBal
CircuitAmounts == 0..(MaxBal + 1)
Prices == 0..MaxPrice
Timestamps == {y * SECONDS_PER_YEAR : y \in 0..MaxYears}

\* pool.ltv, pool.liquidation_threshold, pool.liquidation_bonus and
\* pool.fixed_borrow_rate, in basis points
LtvBps == {7500, 10000}
ThresholdBps == {8500, 10000}
BonusBps == {0, 10000}
RateBps == {500, 10000}

\* a minimum that returns its first argument
MinFirst(a, b) == a

Min(a, b) == IF a <= b THEN a ELSE b

Max(a, b) == IF a >= b THEN a ELSE b

\* a limit that is rounded up
WithLtvRoundedUp(collateral_value, ltv_bps) ==
    (collateral_value * ltv_bps + 9999) \div 10000

\* collateral_value * ltv_bps as u128 / 10000
WithLtv(collateral_value, ltv_bps) == (collateral_value * ltv_bps) \div 10000

\* a position that ties its threshold counts as under-collateralized
UnderCollateralizedOrTied(collateral_with_threshold, borrow_value) ==
    collateral_with_threshold <= borrow_value

\* collateral_with_threshold < borrow_value
UnderCollateralized(collateral_with_threshold, borrow_value) ==
    collateral_with_threshold < borrow_value

\* a flag that is always set
AsIntSet(flag) == 1

\* flag as u128
AsInt(flag) == IF flag THEN 1 ELSE 0

UserState(d, b, i, ts) ==
    [deposit_amount |-> d, borrow_amount |-> b, accrued_interest |-> i,
     last_interest_calc_ts |-> ts]

PoolState(td, tb, ai, liq) ==
    [total_deposits |-> td, total_borrows |-> tb, accumulated_interest |-> ai,
     available_borrow_liquidity |-> liq]

\* what a circuit returns: the new user state, its flag, the new pool state
Returned(user_state, flag, pool_state) ==
    [user |-> user_state, flag |-> flag, pool |-> pool_state]

\* a deposit that credits the obligation and leaves the pool as it was
compute_confidential_depositUserOnly(amount, user_state, pool_state, max_creditable) ==
    LET valid_amount == amount <= max_creditable
        effective_credit == AsInt(valid_amount) * amount
    IN Returned([user_state EXCEPT !.deposit_amount = @ + effective_credit],
                valid_amount, pool_state)

compute_confidential_deposit(amount, user_state, pool_state, max_creditable) ==
    LET valid_amount == amount <= max_creditable
        effective_credit == AsInt(valid_amount) * amount
    IN Returned([user_state EXCEPT !.deposit_amount = @ + effective_credit],
                valid_amount,
                [pool_state EXCEPT !.total_deposits = @ + effective_credit])

compute_confidential_borrow(borrow_amount, user_state, pool_state, collateral_price, borrow_price, ltv_bps) ==
    LET proposed_borrow == user_state.borrow_amount + borrow_amount
        collateral_value == user_state.deposit_amount * collateral_price
        collateral_with_ltv == WithLtv(collateral_value, ltv_bps)
        borrow_value == proposed_borrow * borrow_price
        approved == collateral_with_ltv >= borrow_value
        has_liquidity == pool_state.available_borrow_liquidity >= borrow_amount
        final_approved == approved /\ has_liquidity
        borrow_delta == AsInt(final_approved) * borrow_amount
    IN Returned([user_state EXCEPT !.borrow_amount = @ + borrow_delta],
                final_approved,
                [pool_state EXCEPT !.total_borrows = @ + borrow_delta,
                                   !.available_borrow_liquidity = @ - borrow_delta])

\* a withdrawal that debits the pool by the requested amount
compute_confidential_withdrawRequested(withdraw_amount, user_state, pool_state, collateral_price, borrow_price, ltv_bps) ==
    LET actual_withdraw == Min(withdraw_amount, user_state.deposit_amount)
        new_deposit == user_state.deposit_amount - actual_withdraw
        total_borrow == user_state.borrow_amount + user_state.accrued_interest
        approved == \/ total_borrow = 0
                    \/ WithLtv(new_deposit * collateral_price, ltv_bps)
                          >= total_borrow * borrow_price
    IN Returned([user_state EXCEPT !.deposit_amount = @ - AsInt(approved) * actual_withdraw],
                approved,
                [pool_state EXCEPT !.total_deposits = @ - AsInt(approved) * withdraw_amount])

compute_confidential_withdraw(withdraw_amount, user_state, pool_state, collateral_price, borrow_price, ltv_bps) ==
    LET actual_withdraw == Min(withdraw_amount, user_state.deposit_amount)
        new_deposit == user_state.deposit_amount - actual_withdraw
        total_borrow == user_state.borrow_amount + user_state.accrued_interest
        collateral_value == new_deposit * collateral_price
        collateral_with_ltv == WithLtv(collateral_value, ltv_bps)
        borrow_value == total_borrow * borrow_price
        no_borrow == total_borrow = 0
        hf_ok == collateral_with_ltv >= borrow_value
        approved == no_borrow \/ hf_ok
        withdraw_delta == AsInt(approved) * actual_withdraw
    IN Returned([user_state EXCEPT !.deposit_amount = @ - withdraw_delta],
                approved,
                [pool_state EXCEPT !.total_deposits = @ - withdraw_delta])

\* a repayment that pays the principal first, then the interest
compute_confidential_repayPrincipalFirst(repay_amount, user_state, pool_state) ==
    LET total_debt == user_state.borrow_amount + user_state.accrued_interest
        actual_repay == Min(repay_amount, total_debt)
        principal_payment == Min(actual_repay, user_state.borrow_amount)
        interest_payment == actual_repay - principal_payment
    IN Returned([user_state EXCEPT !.borrow_amount = @ - principal_payment,
                                   !.accrued_interest = @ - interest_payment],
                actual_repay > 0,
                [pool_state EXCEPT
                    !.total_borrows = @ - Min(principal_payment, @),
                    !.available_borrow_liquidity = @ + actual_repay,
                    !.accumulated_interest = @ + interest_payment])

compute_confidential_repay(repay_amount, user_state, pool_state) ==
    LET total_debt == user_state.borrow_amount + user_state.accrued_interest
        actual_repay == Min(repay_amount, total_debt)
        interest_payment == Min(actual_repay, user_state.accrued_interest)
        new_interest == user_state.accrued_interest - interest_payment
        principal_payment == actual_repay - interest_payment
        new_borrow == user_state.borrow_amount
                        - Min(principal_payment, user_state.borrow_amount)
    IN Returned([user_state EXCEPT !.borrow_amount = new_borrow,
                                   !.accrued_interest = new_interest],
                actual_repay > 0,
                [pool_state EXCEPT
                    !.total_borrows = @ - Min(principal_payment, @),
                    !.available_borrow_liquidity = @ + actual_repay,
                    !.accumulated_interest = @ + interest_payment])

\* a seizure that is not capped at the deposit
SeizedUncapped(with_bonus, deposit_amount) == with_bonus

\* with_bonus.min(user_state.deposit_amount)
Seized(with_bonus, deposit_amount) == Min(with_bonus, deposit_amount)

compute_confidential_liquidate(repay_amount, user_state, pool_state, collateral_price, borrow_price, liquidation_threshold, liquidation_bonus) ==
    LET total_borrow == user_state.borrow_amount + user_state.accrued_interest
        collateral_value == user_state.deposit_amount * collateral_price
        collateral_with_threshold == collateral_value * liquidation_threshold
        borrow_value == total_borrow * borrow_price * 10000
        has_borrow == total_borrow > 0
        under_collateralized == UnderCollateralized(collateral_with_threshold, borrow_value)
        is_liquidatable == has_borrow /\ under_collateralized
        proceed == AsInt(is_liquidatable)
        actual_repay == Min(proceed * repay_amount, total_borrow)
        repay_value_calc == actual_repay * borrow_price
        collateral_amount == repay_value_calc \div Max(collateral_price, 1)
        with_bonus == (collateral_amount * (10000 + liquidation_bonus)) \div 10000
        seized == Seized(with_bonus, user_state.deposit_amount)
        interest_payment == Min(actual_repay, user_state.accrued_interest)
        principal_payment == actual_repay - interest_payment
    IN Returned([user_state EXCEPT
                    !.deposit_amount = @ - seized,
                    !.accrued_interest = @ - interest_payment,
                    !.borrow_amount = @ - Min(principal_payment, @)],
                is_liquidatable,
                [pool_state EXCEPT
                    !.total_deposits = @ - seized,
                    !.total_borrows = @ - Min(principal_payment, @),
                    !.accumulated_interest = @ + interest_payment])

\* an elapsed time of at least one year
TimeElapsedAtLeastOne(current_ts, last_ts) ==
    Max(current_ts - last_ts, SECONDS_PER_YEAR)

\* (diff.max(0)) as u128
TimeElapsed(current_ts, last_ts) == Max(current_ts - last_ts, 0)

\* borrow * rate * time_elapsed / (10000 * seconds_per_year), for an elapsed
\* time of whole half-years: both terms of the quotient are divided by the
\* seconds of half a year
Interest(borrow, rate, time_elapsed) ==
    (borrow * rate * (time_elapsed \div (SECONDS_PER_YEAR \div 2))) \div (10000 * 2)

compute_confidential_interest(user_state, pool_state, current_ts, borrow_rate_bps) ==
    LET time_elapsed == TimeElapsed(current_ts, user_state.last_interest_calc_ts)
        interest == Interest(user_state.borrow_amount, borrow_rate_bps, time_elapsed)
    IN Returned([user_state EXCEPT !.accrued_interest = @ + interest,
                                   !.last_interest_calc_ts = current_ts],
                TRUE,
                [pool_state EXCEPT !.accumulated_interest = @ + interest])

\* the states an evaluation starts from: one obligation in its pool, with
\* no interest accrued or the most, and no liquidity to borrow or the most
StartStates ==
    {<<UserState(d, b, i, ts), PoolState(d, b, 0, liq)>> :
        d \in Balances, b \in Balances, i \in {0, MaxBal}, ts \in Timestamps,
        liq \in {0, MaxBal}}

\* the cluster before any evaluation
Idle(s) == [op |-> "none", flag |-> FALSE, user |-> s[1], pool |-> s[2]]

\* the cluster evaluates a circuit on the current states and keeps what the
\* circuit returned
Evaluate(op, out) ==
    /\ <<mxe.user, mxe.pool>> \in StartStates
    /\ mxe' = [op |-> op, flag |-> out.flag, user |-> out.user, pool |-> out.pool]
    /\ UNCHANGED <<obl, pool, coll, bor, comps, delivered>>

EvalDeposit ==
    \E amount \in CircuitAmounts, max_creditable \in CircuitAmounts :
        Evaluate("deposit",
                 compute_confidential_deposit(amount, mxe.user, mxe.pool, max_creditable))

EvalBorrow ==
    \E amount \in CircuitAmounts, cp \in Prices, bp \in Prices, ltv \in LtvBps :
        Evaluate("borrow",
                 compute_confidential_borrow(amount, mxe.user, mxe.pool, cp, bp, ltv))

EvalWithdraw ==
    \E amount \in CircuitAmounts, cp \in Prices, bp \in Prices, ltv \in LtvBps :
        Evaluate("withdraw",
                 compute_confidential_withdraw(amount, mxe.user, mxe.pool, cp, bp, ltv))

EvalRepay ==
    \E amount \in CircuitAmounts :
        Evaluate("repay",
                 compute_confidential_repay(amount, mxe.user, mxe.pool))

EvalLiquidate ==
    \E amount \in CircuitAmounts, cp \in Prices, bp \in Prices,
       threshold \in ThresholdBps, bonus \in BonusBps :
        Evaluate("liquidate",
                 compute_confidential_liquidate(amount, mxe.user, mxe.pool, cp, bp,
                                                threshold, bonus))

EvalInterest ==
    \E ts \in Timestamps, rate \in RateBps :
        Evaluate("interest",
                 compute_confidential_interest(mxe.user, mxe.pool, ts, rate))

CircuitInit ==
    /\ obl = [u \in Users |-> NewObligation]
    /\ pool = NewPool
    /\ coll = [h \in Holders |-> IF h \in Users THEN InitUserColl ELSE 0]
    /\ bor = [h \in Holders |-> InitBor]
    /\ comps = <<>>
    /\ delivered = NoDelivery
    /\ mxe \in {Idle(s) : s \in StartStates}

CircuitNext ==
    \/ EvalDeposit
    \/ EvalBorrow
    \/ EvalWithdraw
    \/ EvalRepay
    \/ EvalLiquidate
    \/ EvalInterest

CircuitSpec == CircuitInit /\ [][CircuitNext]_vars

----------------------------------------------------------------------------
(* Crediting: a deposit from its request to its callback.  The cluster     *)
(* evaluates compute_confidential_deposit on the amount that               *)
(* deposit_handler passed and on the plaintext of the stored states; the   *)
(* states it returns become the stored ones when a callback accepts the    *)
(* output, so that mxe holds the plaintext of what the ledger stores.      *)

\* deposit_handler builds no argument for the circuit's fourth parameter:
\* the values the circuit may read for max_creditable
Creditables == Amounts

ZeroStates == <<UserState(0, 0, 0, 0), PoolState(0, 0, 0, 0)>>

\* the cluster evaluates the deposit circuit for computation o and delivers
\* its signed output p to the entry point op
deposit_delivery(op, o, p, max_creditable) ==
    LET out == CallbackOut(op, o, p, TRUE)
        credited == compute_confidential_deposit(comps[o].arg, mxe.user, mxe.pool,
                                                 max_creditable)
    IN /\ Deliverable(op, "deposit", o, p, TRUE)
       /\ comps[o].status = "queued"
       /\ comps' = [comps EXCEPT ![o].status = out.code]
       /\ IF out.code = "Ok"
          THEN /\ obl' = [obl EXCEPT ![comps[o].user] = out.obl]
               /\ pool' = out.pool
               /\ coll' = out.coll
               /\ bor' = out.bor
               /\ delivered' = [offset |-> o, op |-> op, payload |-> p]
               /\ mxe' = [op |-> "deposit", flag |-> credited.flag,
                          user |-> credited.user, pool |-> credited.pool]
          ELSE UNCHANGED <<obl, pool, coll, bor, delivered, mxe>>

CreditInit ==
    /\ obl = [u \in Users |-> NewObligation]
    /\ pool = NewPool
    /\ coll = [h \in Holders |-> IF h \in Users THEN MIN_FUND_AMOUNT + InitUserColl ELSE 0]
    /\ bor = [h \in Holders |-> InitBor]
    /\ comps = <<>>
    /\ delivered = NoDelivery
    /\ mxe = Idle(ZeroStates)

CreditRequest == \E u \in Users, amount \in Amounts : deposit_handler(u, amount)

HandlerCredit ==
    \E o \in Offsets, p \in HandlerPayloads("deposit"), max_creditable \in Creditables :
        deposit_delivery("deposit_callback_handler", o, p, max_creditable)

LibCredit ==
    \E o \in Offsets, p \in LibPayloads("deposit"), max_creditable \in Creditables :
        deposit_delivery("deposit_callback", o, p, max_creditable)

CreditNext == Fund \/ CreditRequest \/ HandlerCredit \/ LibCredit

CreditSpec == CreditInit /\ [][CreditNext]_vars

----------------------------------------------------------------------------
(* Argument lists: the ArgBuilder calls of instructions/*/handler.rs and   *)
(* the parameter lists of encrypted-ixs/src/lib.rs.  An argument is a pair *)
(* of its kind and its width in bits; an account reference stands for the  *)
(* ciphertext words it covers, of whatever width the circuit declares.     *)

Key == <<"key", 256>>
Plain(width) == <<"plain", width>>
Encrypted(width) == <<"enc", width>>
Ref == <<"ref", 0>>

\* .account(key, ENCRYPTED_STATE_OFFSET, ENCRYPTED_STATE_SIZE): 128 bytes, four words
ByAccount == <<Ref, Ref, Ref, Ref>>

\* four times .encrypted_u128([0u8; 32])
Placeholders == <<Encrypted(128), Encrypted(128), Encrypted(128), Encrypted(128)>>

StateArg(initialized) == IF initialized THEN ByAccount ELSE Placeholders

\* the list that the handler of a kind builds
BuiltArgs(kind, user_initialized, pool_initialized) ==
    CASE kind = "deposit" ->
           <<Plain(64), Key, Plain(128)>> \o StateArg(user_initialized)
              \o <<Plain(128)>> \o StateArg(pool_initialized)
      [] kind = "borrow" ->
           <<Key, Plain(128), Encrypted(128)>> \o ByAccount
              \o <<Plain(128)>> \o StateArg(pool_initialized)
              \o <<Plain(64), Plain(64), Plain(64)>>
      [] kind = "withdraw" ->
           <<Key, Plain(128), Encrypted(128), Encrypted(128), Encrypted(128),
             Encrypted(128), Encrypted(128), Plain(64), Plain(64), Plain(16)>>
      [] kind = "repay" ->
           <<Plain(64), Key, Plain(128)>> \o ByAccount
              \o <<Plain(128)>> \o StateArg(pool_initialized)
      [] kind = "liquidate" ->
           <<Plain(64), Key, Plain(128)>> \o ByAccount
              \o <<Plain(128)>> \o StateArg(pool_initialized)
              \o <<Plain(64), Plain(64), Plain(64), Plain(64)>>
      [] kind = "interest" ->
           <<Key, Plain(128)>> \o ByAccount
              \o <<Plain(128)>> \o StateArg(pool_initialized)
              \o <<Plain(128), Plain(64)>>

\* Enc<Shared, UserState>: u128, u128, u128, i64
UserStateParam == <<Encrypted(128), Encrypted(128), Encrypted(128), Encrypted(64)>>

\* Enc<Mxe, PoolState>: its nonce, then u128, u128, u128, u128
PoolStateParam ==
    <<Plain(128), Encrypted(128), Encrypted(128), Encrypted(128), Encrypted(128)>>

\* Enc<Shared, u64> followed by Enc<Shared, UserState>, under one key and nonce
SharedParams == <<Key, Plain(128), Encrypted(64)>> \o UserStateParam

\* the parameter list of the circuit of a kind
Signature(kind) ==
    CASE kind = "deposit" -> SharedParams \o PoolStateParam \o <<Plain(64)>>
      [] kind = "borrow" ->
           SharedParams \o PoolStateParam \o <<Plain(64), Plain(64), Plain(64)>>
      [] kind = "withdraw" ->
           SharedParams \o PoolStateParam \o <<Plain(64), Plain(64), Plain(64)>>
      [] kind = "repay" -> SharedParams \o PoolStateParam
      [] kind = "liquidate" ->
           SharedParams \o PoolStateParam
              \o <<Plain(64), Plain(64), Plain(64), Plain(64)>>
      [] kind = "interest" ->
           <<Key, Plain(128)>> \o UserStateParam \o PoolStateParam
              \o <<Plain(64), Plain(64)>>

----------------------------------------------------------------------------
(* Chained executions: the circuits run one after another on the states    *)
(* the previous runs returned, from the zero states.  Two obligations      *)
(* share the pool; the cluster keeps the inputs of its last run.           *)

\* the (minuend, subtrahend) pairs of the unsigned subtractions a circuit makes
Subtractions(kind, amount, user_state, pool_state, collateral_price, borrow_price, bps, bonus) ==
    LET debt == user_state.borrow_amount + user_state.accrued_interest
    IN
    CASE kind = "borrow" ->
           LET out == compute_confidential_borrow(amount, user_state, pool_state,
                                                  collateral_price, borrow_price, bps)
               borrow_delta == AsInt(out.flag) * amount
           IN {<<pool_state.available_borrow_liquidity, borrow_delta>>}
      [] kind = "withdraw" ->
           LET out == compute_confidential_withdraw(amount, user_state, pool_state,
                                                    collateral_price, borrow_price, bps)
               actual_withdraw == Min(amount, user_state.deposit_amount)
               withdraw_delta == AsInt(out.flag) * actual_withdraw
           IN {<<user_state.deposit_amount, actual_withdraw>>,
               <<user_state.deposit_amount, withdraw_delta>>,
               <<pool_state.total_deposits, withdraw_delta>>}
      [] kind = "repay" ->
           LET actual_repay == Min(amount, debt)
               interest_payment == Min(actual_repay, user_state.accrued_interest)
               principal_payment == actual_repay - interest_payment
           IN {<<user_state.accrued_interest, interest_payment>>,
               <<actual_repay, interest_payment>>,
               <<user_state.borrow_amount,
                 Min(principal_payment, user_state.borrow_amount)>>,
               <<pool_state.total_borrows,
                 Min(principal_payment, pool_state.total_borrows)>>}
      [] kind = "liquidate" ->
           LET out == compute_confidential_liquidate(amount, user_state, pool_state,
                                                     collateral_price, borrow_price,
                                                     bps, bonus)
               actual_repay == Min(AsInt(out.flag) * amount, debt)
               seized == user_state.deposit_amount - out.user.deposit_amount
               interest_payment == Min(actual_repay, user_state.accrued_interest)
               principal_payment == actual_repay - interest_payment
           IN {<<user_state.deposit_amount, seized>>,
               <<user_state.accrued_interest, interest_payment>>,
               <<actual_repay, interest_payment>>,
               <<user_state.borrow_amount,
                 Min(principal_payment, user_state.borrow_amount)>>,
               <<pool_state.total_deposits, seized>>,
               <<pool_state.total_borrows,
                 Min(principal_payment, pool_state.total_borrows)>>}
      [] OTHER -> {}

\* the cluster after a run of op on the states it held
Execute(op, out) ==
    /\ mxe' = [op |-> op, flag |-> out.flag, user |-> out.user, pool |-> out.pool,
               other |-> mxe.other, before |-> <<mxe.user, mxe.pool>>]
    /\ UNCHANGED <<obl, pool, coll, bor, comps, delivered>>

ExecDeposit ==
    \E amount \in CircuitAmounts, max_creditable \in CircuitAmounts :
        /\ mxe.pool.total_deposits + amount <= MaxBal + 1
        /\ Execute("deposit",
                   compute_confidential_deposit(amount, mxe.user, mxe.pool, max_creditable))

ExecBorrow ==
    \E amount \in CircuitAmounts, cp \in Prices, bp \in Prices, ltv \in LtvBps :
        Execute("borrow",
                compute_confidential_borrow(amount, mxe.user, mxe.pool, cp, bp, ltv))

ExecWithdraw ==
    \E amount \in CircuitAmounts, cp \in Prices, bp \in Prices, ltv \in LtvBps :
        Execute("withdraw",
                compute_confidential_withdraw(amount, mxe.user, mxe.pool, cp, bp, ltv))

ExecRepay ==
    \E amount \in CircuitAmounts :
        Execute("repay", compute_confidential_repay(amount, mxe.user, mxe.pool))

ExecLiquidate ==
    \E amount \in CircuitAmounts, cp \in Prices, bp \in Prices,
       threshold \in ThresholdBps, bonus \in BonusBps :
        Execute("liquidate",
                compute_confidential_liquidate(amount, mxe.user, mxe.pool, cp, bp,
                                               threshold, bonus))

ExecInterest ==
    \E ts \in Timestamps, rate \in RateBps :
        Execute("interest", compute_confidential_interest(mxe.user, mxe.pool, ts, rate))

\* the next computation is on the other obligation of the pool
OtherObligation ==
    /\ mxe' = [mxe EXCEPT !.user = mxe.other, !.other = mxe.user]
    /\ UNCHANGED <<obl, pool, coll, bor, comps, delivered>>

ChainInit ==
    /\ obl = [u \in Users |-> NewObligation]
    /\ pool = NewPool
    /\ coll = [h \in Holders |-> IF h \in Users THEN InitUserColl ELSE 0]
    /\ bor = [h \in Holders |-> InitBor]
    /\ comps = <<>>
    /\ delivered = NoDelivery
    /\ mxe = [op |-> "none", flag |-> FALSE, user |-> ZeroStates[1],
              pool |-> ZeroStates[2], other |-> ZeroStates[1], before |-> ZeroStates]

ChainNext ==
    \/ ExecDeposit
    \/ ExecBorrow
    \/ ExecWithdraw
    \/ ExecRepay
    \/ ExecLiquidate
    \/ ExecInterest
    \/ OtherObligation

ChainSpec == ChainInit /\ [][ChainNext]_vars

----------------------------------------------------------------------------
(* Attestations: programs/shadowlend-contracts, utils/attestation.rs and   *)
(* state/arcium_config.rs.  The cluster record holds the ArciumConfig, the *)
(* clock, the build's overflow mode and what the last verification         *)
(* returned.  Timestamps are two's-complement integers of TsBits bits.     *)

\* entries of ArciumConfig.mxe_registry
MaxNodes == 2

\* width of the i64 timestamps
TsBits == 3

\* ArciumConfig.max_attestation_age
MaxAttestationAge == 1

Nodes == {"n1", "n2"}
Measurements == {1, 2}
TsMin == -(2 ^ (TsBits - 1))
TsMax == 2 ^ (TsBits - 1) - 1
I64 == TsMin..TsMax

\* the Ed25519 key of a node
KeyOf(node) == <<"key", node>>

\* MxeNodeInfo::new
MxeNodeInfo(node_pubkey, enclave_measurement) ==
    [node_pubkey |-> node_pubkey, attestation_key |-> KeyOf(node_pubkey),
     enclave_measurement |-> enclave_measurement, is_active |-> TRUE]

\* a signature of key over the message, which holds the timestamp
Signed(key, timestamp) == <<key, timestamp>>

\* MxeAttestation
MxeAttestation(mxe_node, signature, mrenclave, timestamp) ==
    [mxe_node |-> mxe_node, signature |-> signature, mrenclave |-> mrenclave,
     timestamp |-> timestamp]

\* the value of a machine integer after a wrapping operation
Wrapped(x) == ((x - TsMin) % (2 ^ TsBits)) + TsMin

\* the attestations handed to the program: signed by a node's key over the
\* timestamp they carry or over another one
Attestations ==
    UNION {{MxeAttestation(n, Signed(KeyOf(k), s), m, ts) : s \in {ts, Wrapped(ts + 1)}} :
              n \in Nodes \cup {"unknown"}, k \in Nodes, m \in Measurements, ts \in I64}

\* ArciumConfig::find_active_node: the index of the first match, or 0
find_active_node(registry, node_pubkey) ==
    LET hits == {i \in DOMAIN registry :
                    registry[i].node_pubkey = node_pubkey /\ registry[i].is_active}
    IN IF hits = {} THEN 0 ELSE CHOOSE i \in hits : \A j \in hits : i <= j

\* (now - attestation.timestamp).abs() <= max_attestation_age: an operation
\* that overflows panics in a build with overflow checks and wraps otherwise
Fresh(now, timestamp, max_age, overflow_checks) ==
    LET diff == now - timestamp
        age == IF Wrapped(diff) < 0 THEN -Wrapped(diff) ELSE Wrapped(diff)
    IN IF diff \notin I64 \/ age \notin I64
       THEN IF overflow_checks THEN "Panic"
            ELSE IF Wrapped(age) <= max_age THEN "Ok" ELSE "AttestationTooOld"
       ELSE IF age <= max_age THEN "Ok" ELSE "AttestationTooOld"

verify_mxe_attestation(attestation, config, now, overflow_checks) ==
    LET i == find_active_node(config.mxe_registry, attestation.mxe_node)
        mxe_node == config.mxe_registry[i]
    IN IF i = 0 THEN "InvalidMxeNode"
       ELSE IF attestation.signature # Signed(mxe_node.attestation_key, attestation.timestamp)
       THEN "InvalidAttestation"
       ELSE IF attestation.mrenclave # mxe_node.enclave_measurement
       THEN "InvalidEnclaveMeasurement"
       ELSE Fresh(now, attestation.timestamp, config.max_attestation_age, overflow_checks)

Registries ==
    UNION {[1..n -> {MxeNodeInfo(node, m) : node \in Nodes, m \in Measurements}] :
              n \in 0..MaxNodes}

AttestInit ==
    /\ obl = [u \in Users |-> NewObligation]
    /\ pool = NewPool
    /\ coll = [h \in Holders |-> IF h \in Users THEN InitUserColl ELSE 0]
    /\ bor = [h \in Holders |-> InitBor]
    /\ comps = <<>>
    /\ delivered = NoDelivery
    /\ \E registry \in Registries, overflow_checks \in BOOLEAN :
          mxe = [op |-> "none",
                 config |-> [mxe_registry |-> registry,
                             max_attestation_age |-> MaxAttestationAge],
                 now |-> 0, overflow_checks |-> overflow_checks, code |-> "none"]

\* MxeNodeInfo::deactivate on an entry of the registry
deactivate(i) ==
    /\ i \in DOMAIN mxe.config.mxe_registry
    /\ mxe' = [mxe EXCEPT !.op = "deactivate", !.config.mxe_registry[i].is_active = FALSE]
    /\ UNCHANGED <<obl, pool, coll, bor, comps, delivered>>

\* MxeNodeInfo::activate on an entry of the registry
activate(i) ==
    /\ i \in DOMAIN mxe.config.mxe_registry
    /\ mxe' = [mxe EXCEPT !.op = "activate", !.config.mxe_registry[i].is_active = TRUE]
    /\ UNCHANGED <<obl, pool, coll, bor, comps, delivered>>

\* the clock advances
Tick ==
    /\ mxe.now < TsMax
    /\ mxe' = [mxe EXCEPT !.op = "tick", !.now = @ + 1]
    /\ UNCHANGED <<obl, pool, coll, bor, comps, delivered>>

\* an instruction verifies the attestation it was handed
Verify ==
    \E attestation \in Attestations :
        /\ mxe' = [mxe EXCEPT
                      !.op = "verify",
                      !.code = verify_mxe_attestation(attestation, mxe.config, mxe.now,
                                                      mxe.overflow_checks)]
        /\ UNCHANGED <<obl, pool, coll, bor, comps, delivered>>

AttestNext ==
    \/ \E i \in 1..MaxNodes : deactivate(i)
    \/ \E i \in 1..MaxNodes : activate(i)
    \/ Tick
    \/ Verify

AttestSpec == AttestInit /\ [][AttestNext]_vars

----------------------------------------------------------------------------
(* Funding: fund_account on obligations that were funded before, up to the *)
(* width of total_funded.                                                  *)

\* obligations that do not exist yet, or exist with tokens funded and none
\* claimed; their users hold tokens around one and two minimum amounts
FundingInit ==
    /\ \E created \in BOOLEAN,
          funded \in {0, 1, MaxFunded} \cup
                     {MaxFunded - k * MIN_FUND_AMOUNT - d : k \in {1, 2}, d \in {0, 1}}
                     \cup {MaxFunded - MIN_FUND_AMOUNT + 1},
          held \in {0, MIN_FUND_AMOUNT - 1} \cup
                   {k * MIN_FUND_AMOUNT + d : k \in {1, 2}, d \in {0, 1}} :
          /\ created \/ funded = 0
          /\ obl = [u \in Users |->
                       [NewObligation EXCEPT !.created = created, !.total_funded = funded]]
          /\ coll = [h \in Holders |->
                        IF h \in Users THEN held ELSE IF h = Vault THEN funded ELSE 0]
    /\ pool = NewPool
    /\ bor = [h \in Holders |-> InitBor]
    /\ comps = <<>>
    /\ delivered = NoDelivery
    /\ mxe = NoEvaluation

Funding ==
    \E u \in Users, amount \in FundAmounts \cup {MIN_FUND_AMOUNT + 1} :
        fund_account_handler(u, amount)

FundingNext == Funding \/ CreditRequest

FundingSpec == FundingInit /\ [][FundingNext]_vars

----------------------------------------------------------------------------
(* Requests in flight: two obligations of one pool, each request from its  *)
(* handler to its callback.  mxe holds the plaintext of the ciphertexts    *)
(* that the obligations and the pool store, the requests in flight with    *)
(* the arguments their handlers built, and, in serial, the pool state the  *)
(* circuits return when each run reads what the previous one returned.     *)
(* The token accounts cover every transfer of these requests.              *)

Obligations == {"o1", "o2"}

NoFlight ==
    [kind |-> "none", amount |-> 0, status |-> "none", user_ref |-> FALSE,
     pool_ref |-> FALSE, input |-> <<ZeroStates[1], 0, 0, 0>>,
     out |-> Returned(ZeroStates[1], FALSE, ZeroStates[2])]

InFlight(o) == mxe.flight[o].status \in {"queued", "evaluated"}

\* the circuit of a kind on the arguments of a request
Circuit(kind, amount, input, pool_state) ==
    CASE kind = "deposit" ->
           compute_confidential_deposit(amount, input[1], pool_state, input[2])
      [] kind = "repay" -> compute_confidential_repay(amount, input[1], pool_state)
      [] kind = "interest" ->
           compute_confidential_interest(input[1], pool_state, input[3], input[4])

FlightInit ==
    /\ obl = [u \in Users |-> NewObligation]
    /\ pool = NewPool
    /\ coll = [h \in Holders |-> IF h \in Users THEN InitUserColl ELSE 0]
    /\ bor = [h \in Holders |-> InitBor]
    /\ comps = <<>>
    /\ delivered = NoDelivery
    /\ mxe = [user |-> [o \in Obligations |-> ZeroStates[1]],
              user_state_initialized |-> [o \in Obligations |-> FALSE],
              pool |-> ZeroStates[2],
              pool_state_initialized |-> FALSE,
              flight |-> [o \in Obligations |-> NoFlight],
              overlapped |-> FALSE,
              serial |-> ZeroStates[2]]

\* the handler of a kind builds the arguments and queues the computation: a
\* state that is not initialized goes in as zero placeholders, an initialized
\* one as a reference to the account
QueueRequest(o, kind, amount) ==
    LET others == {x \in Obligations \ {o} : InFlight(x)}
        serial == IF others = {} THEN mxe.pool ELSE mxe.serial
    IN /\ ~InFlight(o)
       /\ CASE kind = "deposit" ->
                 /\ amount > 0
                 /\ mxe.user[o].deposit_amount + amount <= MaxBal
                 /\ serial.total_deposits + amount <= MaxBal
            [] kind = "repay" -> amount > 0 /\ mxe.user_state_initialized[o]
            [] kind = "interest" -> amount = 0 /\ mxe.user_state_initialized[o]
       /\ mxe' = [mxe EXCEPT
                    !.flight[o] =
                       [NoFlight EXCEPT
                          !.kind = kind, !.amount = amount, !.status = "queued",
                          !.user_ref = IF kind = "deposit"
                                       THEN mxe.user_state_initialized[o] ELSE TRUE,
                          !.pool_ref = mxe.pool_state_initialized],
                    !.overlapped = others # {},
                    !.serial = serial]
       /\ UNCHANGED <<obl, pool, coll, bor, comps, delivered>>

\* the cluster runs the circuit of a queued request: it reads a referenced
\* account as the account is now, and a placeholder as the zero state
RunCircuit(o, max_creditable, current_ts, rate) ==
    LET f == mxe.flight[o]
        user_state == IF f.user_ref THEN mxe.user[o] ELSE ZeroStates[1]
        pool_state == IF f.pool_ref THEN mxe.pool ELSE ZeroStates[2]
        input == <<user_state,
                   IF f.kind = "deposit" THEN max_creditable ELSE 0,
                   IF f.kind = "interest" THEN current_ts ELSE 0,
                   IF f.kind = "interest" THEN rate ELSE 0>>
    IN /\ f.status = "queued"
       /\ mxe' = [mxe EXCEPT
                    !.flight[o] =
                       [f EXCEPT !.status = "evaluated", !.input = input,
                                 !.out = Circuit(f.kind, f.amount, input, pool_state)]]
       /\ UNCHANGED <<obl, pool, coll, bor, comps, delivered>>

\* the callback of an evaluated request: deposit_callback_handler and
\* deposit_callback store the user state, and deposit_callback marks it
\* initialized; repay_callback_handler and update_interest_callback_handler
\* store the user state and the pool state; a deposit or a repayment whose
\* flag is not set is refused
ApplyCallback(o, op) ==
    LET f == mxe.flight[o]
        serial == Circuit(f.kind, f.amount, f.input, mxe.serial).pool
        done == [mxe EXCEPT !.flight[o] = [NoFlight EXCEPT !.status = "applied"],
                            !.serial = serial]
    IN /\ f.status = "evaluated"
       /\ op \in EntryPoints(f.kind)
       /\ mxe' = IF f.kind \in {"deposit", "repay"} /\ ~f.out.flag
                 THEN done
                 ELSE IF op = "deposit_callback_handler"
                 THEN [done EXCEPT !.user[o] = f.out.user]
                 ELSE IF op = "deposit_callback"
                 THEN [done EXCEPT !.user[o] = f.out.user,
                                   !.user_state_initialized[o] = TRUE]
                 ELSE [done EXCEPT !.user[o] = f.out.user,
                                   !.pool = f.out.pool,
                                   !.pool_state_initialized = TRUE]
       /\ UNCHANGED <<obl, pool, coll, bor, comps, delivered>>

FlightNext ==
    \/ \E o \in Obligations, amount \in 0..1 :
          \/ QueueRequest(o, "deposit", amount)
          \/ QueueRequest(o, "repay", amount)
          \/ QueueRequest(o, "interest", amount)
    \/ \E o \in Obligations, max_creditable \in CircuitAmounts,
          current_ts \in Timestamps, rate \in RateBps :
          RunCircuit(o, max_creditable, current_ts, rate)
    \/ \E o \in Obligations :
          \/ ApplyCallback(o, "deposit_callback_handler")
          \/ ApplyCallback(o, "deposit_callback")
          \/ ApplyCallback(o, "repay_callback_handler")
          \/ ApplyCallback(o, "update_interest_callback_handler")

FlightSpec == FlightInit /\ [][FlightNext]_vars

----------------------------------------------------------------------------
(* Properties *)

HandlerCallbackOps ==
    {"deposit_callback_handler", "borrow_callback_handler", "withdraw_callback_handler",
     "repay_callback_handler", "liquidate_callback_handler",
     "update_interest_callback_handler"}

LibCallbackOps ==
    {"deposit_callback", "borrow_callback", "withdraw_callback", "repay_callback",
     "liquidate_callback"}

CallbackOps == HandlerCallbackOps \cup LibCallbackOps

\* the callbacks that store new state ciphertexts whenever they return Ok
WritingOps == CallbackOps \ {"liquidate_callback_handler", "borrow_callback", "withdraw_callback"}

\* the step is a request that was queued
Requested == Len(comps') = Len(comps) + 1

\* the step is the cluster's delivery of an output that the callback refused
Failed ==
    /\ Len(comps') = Len(comps)
    /\ \E o \in DOMAIN comps : comps'[o].status \notin {comps[o].status, "Ok"}

\* the step is a callback that returned Ok
Accepted ==
    /\ delivered'.op \in CallbackOps
    /\ Len(comps') = Len(comps)
    /\ \A o \in DOMAIN comps : comps'[o].status \in {comps[o].status, "Ok"}

\* the callback leaves the obligation, the pool and the balances as they are
Untouched(o, out) ==
    /\ out.obl = obl[comps[o].user]
    /\ out.pool = pool
    /\ out.coll = coll
    /\ out.bor = bor

\* token balances after amount went from one holder to another
Paid(bal, from, to, amount) ==
    [h \in Holders |-> IF h = from THEN bal[h] - amount
                       ELSE IF h = to THEN bal[h] + amount ELSE bal[h]]

\* the user output reports a cleared flag in its fifth word
FlagCleared(p) == Len(p.cts) >= 5 /\ p.cts[5] % 256 = 0

\* C1: a callback of any kind whose signed output fails verification returns
\* AbortedComputation, and the obligation, the pool record and every token
\* balance are as they were before the callback.
C1_FailedVerificationAborts ==
    \A o \in DOMAIN comps : \A op \in EntryPoints(comps[o].kind) :
        LET out == CallbackOut(op, o, Forged(op \in LibCallbackOps), FALSE)
        IN out.code = "AbortedComputation" /\ Untouched(o, out)

\* a forged output is submitted to the callback of a queued borrow
C1_Witness ==
    \E o \in DOMAIN comps :
        /\ comps[o].kind = "borrow"
        /\ comps[o].status = "queued"
        /\ BorrowCallbackOut(o, Forged(FALSE), FALSE).code = "AbortedComputation"

\* the step delivers again the signed output that a callback accepted last
Replay ==
    /\ delivered.op \in CallbackOps
    /\ Callback(delivered.op, delivered.offset, delivered.payload, TRUE)

\* C2: a signed output that a callback already applied is rejected when it is
\* delivered again: obligation, pool and token balances are unchanged.
C2_ReplayRejected == [][Replay => UNCHANGED <<obl, pool, coll, bor>>]_vars

\* C3: when two requests on one obligation were queued together and the
\* callback of one was applied, the callback of the other is rejected: it
\* neither overwrites encrypted_state_blob nor increments state_nonce.
C3_StaleCallbackRejected ==
    [][\A o \in DOMAIN comps :
          (/\ comps[o].status = "queued"
           /\ comps'[o].status # "queued"
           /\ \E o1 \in DOMAIN comps :
                 /\ o1 > o
                 /\ comps[o1].user = comps[o].user
                 /\ delivered.offset = o1
                 /\ delivered.op \in WritingOps)
          => LET u == comps[o].user IN
             /\ obl'[u].encrypted_state_blob = obl[u].encrypted_state_blob
             /\ obl'[u].state_nonce = obl[u].state_nonce]_vars

\* C4: state_nonce never decreases; a callback that returns Ok and stores a
\* new encrypted_state_blob raises it by exactly 1; a request and a callback
\* that returns an error leave it as it was.
C4_NonceCountsAcceptedUpdates ==
    [][\A u \in Users :
          LET n == obl[u].state_nonce
              m == obl'[u].state_nonce
          IN /\ m \in {n, n + 1}
             /\ (Requested \/ Failed) => m = n
             /\ obl'[u].encrypted_state_blob # obl[u].encrypted_state_blob => m = n + 1
             /\ (Accepted /\ delivered'.op \in WritingOps)
                => m = (IF u = comps[delivered'.offset].user THEN n + 1 ELSE n)]_vars

\* two callbacks were accepted on one obligation, the last one a repay
C4_Witness ==
    \E u \in Users :
        /\ obl[u].state_nonce = 2
        /\ delivered.op = "repay_callback_handler"

\* C5: when a liquidation callback fails verification the escrowed repay
\* amount goes back to the liquidator, whose borrow-token balance is again
\* what it was before the liquidate request.
C5_FailedLiquidationRefunds ==
    \A o \in DOMAIN comps :
        (comps[o].kind = "liquidate" /\ comps[o].status = "queued")
        => \A op \in EntryPoints("liquidate") :
              LET out == CallbackOut(op, o, Forged(op \in LibCallbackOps), FALSE)
                  liquidator == comps[o].payer
              IN out.bor[liquidator] = bor[liquidator] + comps[o].arg

\* C6: when the liquidation circuit reports the position as not liquidatable,
\* the liquidation callback returns Ok, pays the liquidator back exactly the
\* amount escrowed by liquidate_handler, moves no collateral and leaves the
\* target's encrypted state as it was.
C6_NotLiquidatableRefundsEscrow ==
    \A o \in DOMAIN comps :
        (comps[o].kind = "liquidate" /\ comps[o].status = "queued")
        => \A p \in HandlerPayloads("liquidate") :
              FlagCleared(p)
              => LET out == LiquidateCallbackOut(o, p, TRUE)
                 IN /\ out.code = "Ok"
                    /\ out.bor = Paid(bor, Vault, comps[o].payer, comps[o].arg)
                    /\ out.coll = coll
                    /\ out.obl.encrypted_state_blob
                         = obl[comps[o].user].encrypted_state_blob

\* the borrow callback left the vault, the obligation's state and the pool alone
BorrowUnapplied(o, out) ==
    LET ob == obl[comps[o].user]
    IN /\ out.bor = bor
       /\ out.obl.encrypted_state_blob = ob.encrypted_state_blob
       /\ out.obl.state_commitment = ob.state_commitment
       /\ out.obl.state_nonce = ob.state_nonce
       /\ out.pool = pool

\* C7: a borrow callback whose output carries a cleared approved flag moves
\* no tokens out of the borrow vault and leaves encrypted_state_blob,
\* state_commitment, state_nonce and the pool record as they were.
C7_RejectedBorrowChangesNothing ==
    \A o \in DOMAIN comps :
        comps[o].kind = "borrow"
        => /\ \A p \in HandlerPayloads("borrow") :
                 FlagCleared(p) => BorrowUnapplied(o, BorrowCallbackOut(o, p, TRUE))
           /\ \A p \in LibPayloads("borrow") :
                 p.flag # 1 => BorrowUnapplied(o, LibBorrowOut(o, p, TRUE))

\* the cluster's output for a borrow was refused with BorrowRejected
C7_Witness ==
    \E o \in DOMAIN comps :
        comps[o].kind = "borrow" /\ comps[o].status = "BorrowRejected"

BorrowExceeds(p) ==
    /\ Len(p.cts) >= 6 /\ p.cts[5] % 256 # 0
    /\ p.cts[6] > bor[Vault]

\* the output asks the withdraw callback for more than the collateral vault holds
WithdrawExceeds(p) ==
    /\ Len(p.cts) >= 1 /\ p.cts[1] % 256 # 0
    /\ p.cts[Len(p.cts)] > coll[Vault]

\* the output asks the liquidation callback to seize more than the collateral vault holds
SeizureExceeds(p) ==
    /\ Len(p.cts) >= 7 /\ p.cts[5] % 256 # 0
    /\ p.cts[6] > 0 /\ p.cts[7] > coll[Vault]

\* the output asks the liquidation callback to refund more than the borrow vault holds
RefundExceeds(p) ==
    /\ Len(p.cts) >= 7 /\ p.cts[5] % 256 = 0
    /\ p.cts[6] > bor[Vault]

\* no holder's balance is overdrawn
NoOverdraft == \A h \in Holders : coll[h] >= 0 /\ bor[h] >= 0

\* the callback returned the error code and changed nothing
FailsWith(code, o, out) == out.code = code /\ Untouched(o, out)

\* the borrow transfer, the withdraw transfer and the seizure fail with
\* InsufficientLiquidity when they would overdraw their vault
CheckedTransfersFail(o) ==
    /\ comps[o].kind = "borrow"
       => \A p \in HandlerPayloads("borrow") :
             BorrowExceeds(p)
             => FailsWith("InsufficientLiquidity", o, BorrowCallbackOut(o, p, TRUE))
    /\ comps[o].kind = "withdraw"
       => \A p \in HandlerPayloads("withdraw") :
             WithdrawExceeds(p)
             => FailsWith("InsufficientLiquidity", o, WithdrawCallbackOut(o, p, TRUE))
    /\ comps[o].kind = "liquidate"
       => \A p \in HandlerPayloads("liquidate") :
             SeizureExceeds(p)
             => FailsWith("InsufficientLiquidity", o, LiquidateCallbackOut(o, p, TRUE))

\* the liquidation refund fails with the error code when it would overdraw the borrow vault
RefundFails(code, o) ==
    comps[o].kind = "liquidate"
    => \A p \in HandlerPayloads("liquidate") :
          RefundExceeds(p) => FailsWith(code, o, LiquidateCallbackOut(o, p, TRUE))

C10_CommitmentIsKeccak ==
    [][Accepted
          => LET u == comps[delivered'.offset].user
             IN obl'[u].state_commitment = Keccak256(obl'[u].encrypted_state_blob)]_vars

\* C11 (as stated): in every state from initialize_pool on, the pool's
\* pool_state_commitment is the hash of its current encrypted_pool_state.
C11_PoolCommitmentIsHash ==
    pool.pool_state_commitment = Keccak256(pool.encrypted_pool_state)

\* C11 (amended): from initialize_pool until a callback first stores a pool
\* state, encrypted_pool_state is empty and pool_state_commitment is the
\* all-zero placeholder; from then on pool_state_commitment is the keccak256
\* digest of the current encrypted_pool_state.
C11_PoolCommitmentConsistent ==
    IF pool.pool_state_initialized
    THEN pool.pool_state_commitment = Keccak256(pool.encrypted_pool_state)
    ELSE pool.encrypted_pool_state = <<>> /\ pool.pool_state_commitment = ZeroCommit

\* a callback has stored a pool state
C11_Witness ==
    /\ pool.pool_state_initialized
    /\ Len(pool.encrypted_pool_state) = 4
    /\ delivered.op \in {"repay_callback_handler", "liquidate_callback_handler",
                         "update_interest_callback_handler"}

\* the step is a funding that was accepted
Funded == pool'.vault_nonce = pool.vault_nonce + 1

\* the payloads that the cluster signs for an entry point
SignedPayloads(op, kind) ==
    IF op \in LibCallbackOps THEN LibPayloads(kind) ELSE HandlerPayloads(kind)

\* the step is a callback whose output verification succeeded: it is recorded
\* as the last accepted delivery, and carries a payload of the cluster
VerifiedCallback ==
    /\ delivered'.op \in CallbackOps
    /\ delivered'.offset \in DOMAIN comps
    /\ delivered'.op \in EntryPoints(comps[delivered'.offset].kind)
    /\ delivered'.payload \in SignedPayloads(delivered'.op, comps[delivered'.offset].kind)
    /\ Callback(delivered'.op, delivered'.offset, delivered'.payload, TRUE)

\* the encrypted state, commitment and counter of every obligation, and the
\* encrypted state and commitment of the pool
Confidential(obs, po) ==
    << [u \in Users |-> << obs[u].encrypted_state_blob, obs[u].state_commitment,
                           obs[u].state_nonce >>],
       po.encrypted_pool_state, po.pool_state_commitment >>

\* C12: the request handlers and fund_account never modify an obligation's
\* encrypted_state_blob, state_commitment or state_nonce, nor the pool's
\* encrypted_pool_state or pool_state_commitment; those fields change only
\* inside a callback whose output verification succeeded.
C12_OnlyVerifiedCallbacksWrite ==
    [][/\ (Requested \/ Funded) => Confidential(obl', pool') = Confidential(obl, pool)
       /\ Confidential(obl', pool') # Confidential(obl, pool) => VerifiedCallback]_vars

\* an account with stored state was funded and another request was queued
C12_Witness ==
    /\ pool.vault_nonce = 1
    /\ \E u \in Users : obl[u].state_nonce > 0 /\ obl[u].total_funded >= MIN_FUND_AMOUNT
    /\ \E o \in DOMAIN comps : comps[o].status = "queued"

\* C13: when a deposit of amount > 0 completes, the tokens that moved from
\* the user to the collateral vault for it are the amount that the deposit
\* handler transferred and passed to the circuit for crediting, so the
\* callback moves no further tokens; the pool's aggregate (total_deposits)
\* is replaced by the one the circuit returned, raised by that amount; the
\* obligation's state is replaced and its state_nonce rises by exactly 1.
C13_DepositCreditsTransferredAmount ==
    [][(Accepted /\ delivered'.op \in EntryPoints("deposit"))
          => LET o == delivered'.offset
                 p == delivered'.payload
                 u == comps[o].user
             IN /\ obl'[u].state_nonce = obl[u].state_nonce + 1
                /\ coll' = coll
                /\ IF delivered'.op = "deposit_callback_handler"
                   THEN pool'.encrypted_pool_state = Take4(p.pool)
                   ELSE pool'.total_deposits = pool.total_deposits + comps[o].arg]_vars

\* C14: whenever the borrow circuit approves a request, then on the state it
\* was given, with new_debt = borrow_amount + requested amount,
\* new_debt * borrow_price * 10000 <= deposit_amount * collateral_price * ltv_bps
\* and the pool's available_borrow_liquidity >= requested amount.
C14_ApprovedBorrowWithinLimit ==
    \A amount \in CircuitAmounts, cp \in Prices, bp \in Prices, ltv \in LtvBps :
        LET out == compute_confidential_borrow(amount, mxe.user, mxe.pool, cp, bp, ltv)
            new_debt == mxe.user.borrow_amount + amount
        IN out.flag
           => /\ new_debt * bp * 10000 <= mxe.user.deposit_amount * cp * ltv
              /\ mxe.pool.available_borrow_liquidity >= amount

\* the circuit approved a borrow that took the debt above every starting debt
C14_Witness ==
    /\ mxe.op = "borrow"
    /\ mxe.flag
    /\ mxe.user.borrow_amount > MaxBal
    /\ mxe.pool.total_borrows = mxe.user.borrow_amount

\* the borrow that ties the limit: a debt value of 75000 against a collateral
\* value of 100000 at 7500 basis points, in a pool that holds the liquidity
TieBorrow ==
    compute_confidential_borrow(75000, UserState(100000, 0, 0, 0),
                                PoolState(100000, 0, 0, 75000), 1, 1, 7500)

\* C15 (as stated): whenever the borrow circuit rejects a request,
\* new_debt * borrow_price * 10000 > deposit_amount * collateral_price * ltv_bps
\* held on the state it was given, and the returned user and pool states
\* equal the inputs; the request that ties the limit is approved.
C15_RejectedBorrowExceedsLimit ==
    /\ TieBorrow.flag
    /\ \A amount \in CircuitAmounts, cp \in Prices, bp \in Prices, ltv \in LtvBps :
          LET out == compute_confidential_borrow(amount, mxe.user, mxe.pool, cp, bp, ltv)
              new_debt == mxe.user.borrow_amount + amount
          IN ~out.flag
             => /\ new_debt * bp * 10000 > mxe.user.deposit_amount * cp * ltv
                /\ out.user = mxe.user
                /\ out.pool = mxe.pool

\* C15 (amended): whenever the borrow circuit rejects a request, either
\* new_debt * borrow_price * 10000 > deposit_amount * collateral_price * ltv_bps
\* held on the state it was given or the pool's available_borrow_liquidity
\* was below the requested amount, and the returned user and pool states
\* equal the inputs; the request that ties the limit is approved when the
\* pool holds the liquidity.
C15_RejectedBorrowExceedsLimitOrLiquidity ==
    /\ TieBorrow.flag
    /\ \A amount \in CircuitAmounts, cp \in Prices, bp \in Prices, ltv \in LtvBps :
          LET out == compute_confidential_borrow(amount, mxe.user, mxe.pool, cp, bp, ltv)
              new_debt == mxe.user.borrow_amount + amount
          IN ~out.flag
             => /\ \/ new_debt * bp * 10000 > mxe.user.deposit_amount * cp * ltv
                   \/ mxe.pool.available_borrow_liquidity < amount
                /\ out.user = mxe.user
                /\ out.pool = mxe.pool

\* the circuit rejected a borrow, and rejects one that is within the limit
\* because the pool lacks the liquidity
C15_Witness ==
    /\ mxe.op = "borrow"
    /\ ~mxe.flag
    /\ \E amount \in CircuitAmounts, cp \in Prices, bp \in Prices, ltv \in LtvBps :
          /\ amount > 0 /\ cp > 0 /\ bp > 0
          /\ (mxe.user.borrow_amount + amount) * bp * 10000
                <= mxe.user.deposit_amount * cp * ltv
          /\ mxe.pool.available_borrow_liquidity < amount
          /\ ~compute_confidential_borrow(amount, mxe.user, mxe.pool, cp, bp, ltv).flag

\* C16: for any collateral price (0 included), borrow price, threshold, bonus
\* and offered repay amount, the collateral that the liquidation circuit
\* seizes is at most the obligation's deposit_amount before the seizure:
\* deposit_amount never goes below 0, and the pool's total_deposits falls by
\* what the obligation lost.
C16_SeizureWithinDeposit ==
    \A amount \in CircuitAmounts, cp \in Prices, bp \in Prices,
       threshold \in ThresholdBps, bonus \in BonusBps :
        LET out == compute_confidential_liquidate(amount, mxe.user, mxe.pool, cp, bp,
                                                  threshold, bonus)
            seized == mxe.user.deposit_amount - out.user.deposit_amount
        IN /\ seized >= 0
           /\ seized <= mxe.user.deposit_amount
           /\ out.user.deposit_amount >= 0
           /\ out.pool.total_deposits = mxe.pool.total_deposits - seized

\* the repay value with its bonus, converted at the collateral price
WithBonus(amount, bp, cp, bonus) ==
    (((amount * bp) \div Max(cp, 1)) * (10000 + bonus)) \div 10000

\* the circuit has liquidated, and a liquidation of the position it left
\* would seize more than the deposit if the seizure were not capped
C16_Witness ==
    /\ mxe.op = "liquidate"
    /\ mxe.flag
    /\ \E amount \in CircuitAmounts, bp \in Prices, bonus \in BonusBps :
          /\ amount > 0 /\ mxe.user.deposit_amount > 0
          /\ amount <= mxe.user.borrow_amount + mxe.user.accrued_interest
          /\ compute_confidential_liquidate(amount, mxe.user, mxe.pool, 0, bp,
                                            8500, bonus).flag
          /\ WithBonus(amount, bp, 0, bonus) > mxe.user.deposit_amount

\* the position of the scenario: collateral value 8000, debt value 10000
UnhealthyUser == UserState(8000, 10000, 0, 0)

\* the pool of the scenario
ScenarioPool == PoolState(8000, 10000, 0, 0)

\* the same position after a repayment of 4000 made it healthy
HealthyAgain == compute_confidential_repay(4000, UnhealthyUser, ScenarioPool)

\* C17: the liquidation circuit reports liquidated = true exactly when the
\* target has debt (borrow_amount + accrued_interest > 0) and
\* deposit_amount * collateral_price * threshold_bps
\*    < total_debt * borrow_price * 10000;
\* at threshold 8500 a position with collateral value 8000 and debt value
\* 10000 is liquidatable, and the same position made healthy is not.
C17_LiquidatedIffUnderCollateralized ==
    /\ compute_confidential_liquidate(1000, UnhealthyUser, ScenarioPool,
                                      1, 1, 8500, 500).flag
    /\ ~compute_confidential_liquidate(1000, HealthyAgain.user, HealthyAgain.pool,
                                       1, 1, 8500, 500).flag
    /\ \A amount \in CircuitAmounts, cp \in Prices, bp \in Prices,
          threshold \in ThresholdBps, bonus \in BonusBps :
          LET out == compute_confidential_liquidate(amount, mxe.user, mxe.pool, cp, bp,
                                                    threshold, bonus)
              total_debt == mxe.user.borrow_amount + mxe.user.accrued_interest
          IN out.flag
             <=> /\ total_debt > 0
                 /\ mxe.user.deposit_amount * cp * threshold < total_debt * bp * 10000

\* the circuit has liquidated a position that had collateral, and the
\* position it left ties its threshold at some prices
C17_Witness ==
    /\ mxe.op = "liquidate"
    /\ mxe.flag
    /\ mxe.user.deposit_amount > 0
    /\ mxe.user.borrow_amount + mxe.user.accrued_interest > 0
    /\ \E cp \in Prices, bp \in Prices, threshold \in ThresholdBps :
          /\ cp > 0 /\ bp > 0
          /\ mxe.user.deposit_amount * cp * threshold
                = (mxe.user.borrow_amount + mxe.user.accrued_interest) * bp * 10000

\* C18: for any repay amount and any debt state the repay circuit pays
\* interest first: interest_paid = min(amount, accrued_interest) and
\* principal_paid = min(amount - interest_paid, borrow_amount); principal is
\* reduced only when accrued_interest ends at 0, neither field goes below 0,
\* and the total debt falls by exactly min(amount, borrow_amount +
\* accrued_interest).
C18_RepayInterestFirst ==
    \A amount \in CircuitAmounts :
        LET out == compute_confidential_repay(amount, mxe.user, mxe.pool)
            borrow == mxe.user.borrow_amount
            interest == mxe.user.accrued_interest
            interest_paid == interest - out.user.accrued_interest
            principal_paid == borrow - out.user.borrow_amount
        IN /\ interest_paid = (IF amount <= interest THEN amount ELSE interest)
           /\ principal_paid = (IF amount - interest_paid <= borrow
                                THEN amount - interest_paid ELSE borrow)
           /\ principal_paid > 0 => out.user.accrued_interest = 0
           /\ out.user.accrued_interest >= 0
           /\ out.user.borrow_amount >= 0
           /\ interest_paid + principal_paid
                = (IF amount <= borrow + interest THEN amount ELSE borrow + interest)

\* the circuit took a repayment that cleared the interest and left principal,
\* and a further repayment would reduce the principal
C18_Witness ==
    /\ mxe.op = "repay"
    /\ mxe.flag
    /\ mxe.pool.accumulated_interest > 0
    /\ mxe.user.accrued_interest = 0
    /\ mxe.user.borrow_amount > 0

\* C19: the withdraw circuit never debits more than the user's
\* deposit_amount, and it approves exactly when the user has no debt
\* (borrow_amount + accrued_interest = 0) or the position after the
\* withdrawal satisfies
\*   new_deposit * collateral_price * ltv_bps >= total_debt * borrow_price * 10000;
\* on rejection the user and pool states are returned unchanged.
C19_WithdrawWithinDepositAndLimit ==
    \A amount \in CircuitAmounts, cp \in Prices, bp \in Prices, ltv \in LtvBps :
        LET out == compute_confidential_withdraw(amount, mxe.user, mxe.pool, cp, bp, ltv)
            deposit == mxe.user.deposit_amount
            total_debt == mxe.user.borrow_amount + mxe.user.accrued_interest
            new_deposit == IF amount <= deposit THEN deposit - amount ELSE 0
            debit == deposit - out.user.deposit_amount
        IN /\ debit >= 0
           /\ debit <= deposit
           /\ debit <= amount
           /\ out.flag <=> \/ total_debt = 0
                           \/ new_deposit * cp * ltv >= total_debt * bp * 10000
           /\ out.flag => out.user.deposit_amount = new_deposit
           /\ ~out.flag => out.user = mxe.user /\ out.pool = mxe.pool

\* the circuit rejected a withdrawal of a position with debt, and approves
\* a smaller one that keeps the position within the limit
C19_Witness ==
    /\ mxe.op = "withdraw"
    /\ ~mxe.flag
    /\ mxe.user.borrow_amount > 0
    /\ \E amount \in CircuitAmounts, cp \in Prices, bp \in Prices, ltv \in LtvBps :
          /\ amount > 0 /\ cp > 0 /\ bp > 0
          /\ compute_confidential_withdraw(amount, mxe.user, mxe.pool, cp, bp, ltv).flag
          /\ ~compute_confidential_withdraw(amount + 1, mxe.user, mxe.pool, cp, bp, ltv).flag

\* C20: interest accrual with current_ts equal to the obligation's stored
\* last_interest_calc_ts leaves accrued_interest, borrow_amount,
\* deposit_amount and the pool's accumulated_interest unchanged for any
\* borrow amount and rate, and applying it again gives what applying it
\* once gave.
C20_ZeroElapsedAccrualIsNoOp ==
    \A rate \in RateBps :
        LET ts == mxe.user.last_interest_calc_ts
            once == compute_confidential_interest(mxe.user, mxe.pool, ts, rate)
            twice == compute_confidential_interest(once.user, once.pool, ts, rate)
        IN /\ once.user.accrued_interest = mxe.user.accrued_interest
           /\ once.user.borrow_amount = mxe.user.borrow_amount
           /\ once.user.deposit_amount = mxe.user.deposit_amount
           /\ once.pool.accumulated_interest = mxe.pool.accumulated_interest
           /\ twice = once

\* the circuit has accrued interest on a debt, so that the stored timestamp
\* is the one of that accrual
C20_Witness ==
    /\ mxe.op = "interest"
    /\ mxe.user.borrow_amount > 0
    /\ mxe.pool.accumulated_interest > 0
    /\ mxe.user.last_interest_calc_ts > 0

\* the codes of a request refused before its initialization check passed
Uninitialized == {"AccountNotInitialized", "InvalidBorrowAmount"}

\* the codes that borrow, repay, liquidate and interest requests on the
\* obligation of u return, for inputs that are valid in themselves
GatedCodes(u) ==
    {BorrowOut(u, 1, a1, a2).code : a1 \in PriceAges, a2 \in PriceAges}
       \cup {RepayOut(u, amount).code : amount \in Amounts \ {0}}
       \cup {LiquidateOut(u, amount, a1, a2).code :
                amount \in Amounts \ {0}, a1 \in PriceAges, a2 \in PriceAges}
       \cup {InterestOut(u).code}

\* C21: an obligation is created Uninitialized (state_nonce 0, initialized
\* flag false) by the user's first deposit request, becomes Active
\* (initialized flag true) once its first deposit callback is accepted, and
\* never returns to Uninitialized; borrow, repay, liquidate and interest
\* requests are rejected while it is Uninitialized and pass the
\* initialization precondition after a deposit has been accepted.
C21_ActiveAfterAcceptedDeposit ==
    [][\A u \in Users :
          /\ (~obl[u].created /\ obl'[u].created)
                => /\ obl'[u].state_nonce = 0
                   /\ ~obl'[u].user_state_initialized
                   /\ \E o \in DOMAIN comps' : comps'[o].kind = "deposit"
          /\ obl[u].user_state_initialized => obl'[u].user_state_initialized
          /\ ~obl[u].user_state_initialized => GatedCodes(u) \subseteq Uninitialized
          /\ (/\ Accepted
              /\ delivered'.op \in EntryPoints("deposit")
              /\ comps[delivered'.offset].user = u)
                => /\ obl'[u].user_state_initialized
                   /\ GatedCodes(u)' \cap Uninitialized = {}]_vars

\* the codes of a request refused for its arguments or its accounts
ValidationCodes == {"InvalidDepositAmount", "InvalidBorrowAmount", "AccountNotInitialized"}

\* C22: a deposit, repay or liquidate request with amount 0 is rejected
\* with a validation error before any token transfer is made and before any
\* computation is queued: the obligation, the balances and the queue are
\* left as they were (the pool is not written by any request).
C22_ZeroAmountRejected ==
    \A u \in Users :
        \A out \in {DepositOut(u, 0), RepayOut(u, 0)}
                      \cup {LiquidateOut(u, 0, a1, a2) : a1 \in PriceAges, a2 \in PriceAges} :
            /\ out.code \in ValidationCodes
            /\ out = Refused(out.code)

\* an obligation on which a repayment and a liquidation of 1 would be queued
\* and a deposit of 1 would be taken, so that only the amount 0 is refused
C22_Witness ==
    \E u \in Users :
        /\ Len(comps) < MaxComps
        /\ DepositOut(u, 1).code = "Ok"
        /\ RepayOut(u, 1).code = "Ok"
        /\ LiquidateOut(u, 1, MAX_PRICE_AGE_SECONDS, MAX_PRICE_AGE_SECONDS).code = "Ok"
        /\ RepayOut(u, 0).code = "InvalidBorrowAmount"

\* C23: if a queued request never receives a valid callback, the operation
\* did not happen: the step that queues a request, which is all that such
\* an operation ever does, leaves the obligation's encrypted state,
\* commitment and nonce, the pool record and the token balances of the user
\* and the vaults as they were, for deposit, repay and liquidate as well as
\* for borrow, withdraw and interest.
C23_QueuedRequestMovesNothing ==
    [][Requested => /\ Confidential(obl', pool') = Confidential(obl, pool)
                    /\ pool' = pool
                    /\ coll' = coll
                    /\ bor' = bor]_vars

\* C24: in every reachable state, the cumulative amount credited to a
\* user's encrypted deposit balance through the deposit circuit does not
\* exceed that obligation's public total_funded; a single credit request
\* larger than the remaining creditable amount is credited as 0 with
\* success = false, never partially.
C24_CreditedWithinFunded ==
    \A u \in Users :
        /\ mxe.user.deposit_amount <= obl[u].total_funded
        /\ \A amount \in Amounts, max_creditable \in Creditables :
              amount > max_creditable
              => LET out == compute_confidential_deposit(amount, mxe.user, mxe.pool,
                                                         max_creditable)
                 IN /\ out.user.deposit_amount = mxe.user.deposit_amount
                    /\ ~out.flag

\* the argument fills the parameter
Fills(arg, param) == arg = param \/ (arg = Ref /\ param[1] = "enc")

CircuitKinds == {"deposit", "borrow", "withdraw", "repay", "liquidate", "interest"}

\* C25: for each operation, the argument list built by the handler has the
\* same number, order and kinds (plaintext or encrypted, width) of arguments
\* as the parameter list of its circuit, and its arity is the same whether
\* the obligation and pool ciphertexts are initialized (passed by account
\* reference) or not (replaced by zero-state placeholders).
C25_ArgumentsMatchSignature ==
    \A kind \in CircuitKinds, u \in Users :
        LET args == BuiltArgs(kind, obl[u].user_state_initialized,
                              pool.pool_state_initialized)
            params == Signature(kind)
        IN /\ Len(args) = Len(params)
           /\ \A i \in 1..Len(args) : i <= Len(params) => Fills(args[i], params[i])
           /\ \A ui \in BOOLEAN, pi \in BOOLEAN :
                 Len(BuiltArgs(kind, ui, pi)) = Len(args)

\* the user output of a circuit: four state ciphertexts, then the flag
SchemaLen == Len(UserStateParam) + 1

SchemaOps == [deposit |-> "deposit_callback_handler", borrow |-> "borrow_callback_handler"]

\* C26: a callback accepts a payload only if its arity matches the output
\* schema of the circuit: a payload with fewer fields than the schema is
\* rejected with no ledger mutation, and a payload with exactly the four
\* user-state ciphertexts followed by the flag is not rejected for arity and
\* has its flag read from the flag's position.
C26_ArityMatchesSchema ==
    \A o \in DOMAIN comps :
        comps[o].status = "queued" /\ comps[o].kind \in DOMAIN SchemaOps =>
            \A p \in HandlerPayloads(comps[o].kind) :
                LET out == CallbackOut(SchemaOps[comps[o].kind], o, p, TRUE)
                    u == comps[o].user
                IN /\ Len(p.cts) < SchemaLen =>
                         /\ out.code # "Ok"
                         /\ out.obl = obl[u] /\ out.pool = pool
                         /\ out.coll = coll /\ out.bor = bor
                   /\ Len(p.cts) = SchemaLen =>
                         /\ out.code # "InvalidComputationOutput"
                         /\ FirstByte(p.cts[SchemaLen]) = 0 => out.code # "Ok"

\* the states of the chain are unsigned
Unsigned(state) == \A f \in DOMAIN state : state[f] >= 0

\* C27: in every state reachable by any sequence of circuit executions from
\* the zero user and pool states, no subtraction of a circuit underflows:
\* every subtrahend is at most the value it is subtracted from, among them
\* the withdrawn or seized amount taken from pool.total_deposits and the
\* borrowed amount taken from pool.available_borrow_liquidity.
C27_NoSubtractionUnderflows ==
    /\ Unsigned(mxe.user) /\ Unsigned(mxe.other) /\ Unsigned(mxe.pool)
    /\ \A kind \in CircuitKinds, amount \in CircuitAmounts, cp \in Prices, bp \in Prices,
          bps \in LtvBps \cup ThresholdBps, bonus \in BonusBps :
          \A s \in Subtractions(kind, amount, mxe.user, mxe.pool, cp, bp, bps, bonus) :
              s[2] <= s[1]

\* a withdrawal took tokens out of a pool that holds another obligation's deposit
C27_Witness ==
    /\ mxe.op = "withdraw" /\ mxe.flag
    /\ mxe.user.deposit_amount < mxe.before[1].deposit_amount
    /\ mxe.pool.total_deposits < mxe.before[2].total_deposits
    /\ mxe.other.deposit_amount > 0

\* C28: each verified callback that is accepted makes exactly one mutation
\* of the obligation (one state update with one nonce increment) and at most
\* one token transfer; the liquidation callback makes exactly one of the
\* collateral seizure and the escrow refund, never both, and never neither
\* when the escrowed amount is positive.
C28_OneMutationOneTransfer ==
    \A o \in DOMAIN comps :
        comps[o].status = "queued" =>
            \A op \in EntryPoints(comps[o].kind) :
                \A p \in SignedPayloads(op, comps[o].kind) :
                    LET out == CallbackOut(op, o, p, TRUE)
                        seizure == out.coll # coll
                        payment == out.bor # bor
                    IN out.code = "Ok" =>
                          /\ out.obl.state_nonce = obl[comps[o].user].state_nonce + 1
                          /\ ~(seizure /\ payment)
                          /\ comps[o].kind = "liquidate" /\ comps[o].arg > 0
                                => seizure \/ payment

\* the outcomes of the priced requests of u for one pair of price ages
PricedOuts(u, sol_age, usdc_age) ==
    {BorrowOut(u, c, sol_age, usdc_age) : c \in Ciphers}
      \cup {WithdrawOut(u, c, sol_age, usdc_age) : c \in Ciphers}
      \cup {LiquidateOut(u, amount, sol_age, usdc_age) : amount \in Amounts}

Stale(age) == age > MAX_PRICE_AGE_SECONDS

Distance(now, timestamp) == IF now >= timestamp THEN now - timestamp ELSE timestamp - now

\* C30: verify_mxe_attestation succeeds only if the attesting node is present
\* and active in the registry, the attestation's enclave measurement equals
\* the registered one, and |now - attestation.timestamp| is at most
\* max_attestation_age; an attestation from a deactivated or unknown node is
\* never accepted (InvalidMxeNode); an attestation exactly max_attestation_age
\* old is fresh and any older one is rejected.
C30_AttestationVerified ==
    \A attestation \in Attestations :
        LET code == verify_mxe_attestation(attestation, mxe.config, mxe.now,
                                           mxe.overflow_checks)
            registry == mxe.config.mxe_registry
            max_age == mxe.config.max_attestation_age
            active == {i \in DOMAIN registry :
                          registry[i].node_pubkey = attestation.mxe_node
                            /\ registry[i].is_active}
            age == Distance(mxe.now, attestation.timestamp)
        IN /\ code = "Ok" =>
                 /\ \E i \in active :
                       registry[i].enclave_measurement = attestation.mrenclave
                 /\ age <= max_age
           /\ active = {} => code = "InvalidMxeNode"
           /\ age > max_age => code # "Ok"
           /\ age = max_age => code # "AttestationTooOld"

\* C31: every accepted callback of an operation whose circuit changes pool
\* aggregates (deposit, borrow, withdraw, repay, liquidate, interest) stores
\* the circuit's new pool ciphertext in the pool record, so that the next
\* request reads the pool state that the circuit returned.
C31_AcceptedCallbackStoresPool ==
    \A o \in DOMAIN comps :
        comps[o].status = "queued" =>
            \A op \in EntryPoints(comps[o].kind) \cap HandlerCallbackOps :
                \A p \in HandlerPayloads(comps[o].kind) :
                    LET out == CallbackOut(op, o, p, TRUE)
                    IN out.code = "Ok" /\ Len(p.pool) > 0 =>
                          /\ out.pool.pool_state_initialized
                          /\ out.pool.encrypted_pool_state = Take4(p.pool)

FundingAmounts == FundAmounts \cup {MIN_FUND_AMOUNT + 1}

\* the obligation but for its total_funded
BesidesFunded(ob) == [ob EXCEPT !.total_funded = 0]

C33_NoInterestBeforeBorrow ==
    \A amount \in CircuitAmounts, cp \in Prices, bp \in Prices, ltv \in LtvBps,
       rate \in RateBps, T \in Timestamps, T2 \in Timestamps :
        LET borrowed == compute_confidential_borrow(amount, mxe.user, mxe.pool, cp, bp, ltv)
            accrued == compute_confidential_interest(borrowed.user, borrowed.pool, T2, rate)
        IN (/\ mxe.user.borrow_amount = 0
            /\ mxe.user.last_interest_calc_ts <= T /\ T <= T2
            /\ borrowed.flag)
           => accrued.user.accrued_interest - borrowed.user.accrued_interest
                 <= Interest(borrowed.user.borrow_amount, rate, T2 - T)

\* the times of accrual calls: every half year
HalfYears == {h * (SECONDS_PER_YEAR \div 2) : h \in 0..(2 * MaxYears)}

\* C34: the total interest accrued over a time interval does not depend on
\* how many accrual calls the interval is split into: with borrow_amount and
\* rate fixed, accruing at t1 and then at t2 adds the same accrued_interest
\* as a single accrual at t2.
C34_AccrualSplitInvariant ==
    \A rate \in RateBps, t1 \in HalfYears, t2 \in HalfYears :
        LET once == compute_confidential_interest(mxe.user, mxe.pool, t2, rate)
            first == compute_confidential_interest(mxe.user, mxe.pool, t1, rate)
            second == compute_confidential_interest(first.user, first.pool, t2, rate)
        IN (mxe.user.last_interest_calc_ts <= t1 /\ t1 <= t2)
           => /\ second.user.accrued_interest = once.user.accrued_interest
              /\ second.pool.accumulated_interest = once.pool.accumulated_interest


\* C35: after an approved borrow the user's debt including accrued interest is
\* within the LTV limit: (borrow_amount + accrued_interest) * borrow_price *
\* 10000 <= deposit_amount * collateral_price * ltv_bps on the state the
\* borrow circuit returns.
C35_BorrowCountsAccruedInterest ==
    \A amount \in CircuitAmounts, cp \in Prices, bp \in Prices, ltv \in LtvBps :
        LET out == compute_confidential_borrow(amount, mxe.user, mxe.pool, cp, bp, ltv)
            total_debt == out.user.borrow_amount + out.user.accrued_interest
        IN out.flag
           => total_debt * bp * 10000 <= out.user.deposit_amount * cp * ltv

\* C36: when the circuits run one at a time, each on the states the previous
\* run returned, pool.total_deposits is the sum of the users' deposit_amount
\* and pool.total_borrows is the sum of the users' borrow_amount in every
\* reachable state.
C36_PoolTotalsAreUserSums ==
    /\ mxe.pool.total_deposits = mxe.user.deposit_amount + mxe.other.deposit_amount
    /\ mxe.pool.total_borrows = mxe.user.borrow_amount + mxe.other.borrow_amount

\* an approved withdrawal took part of one user's deposit while the other
\* user of the pool holds a deposit too
C36_Witness ==
    /\ mxe.op = "withdraw"
    /\ mxe.flag
    /\ mxe.user.deposit_amount > 0
    /\ mxe.before[1].deposit_amount > mxe.user.deposit_amount
    /\ mxe.other.deposit_amount > 0
    /\ mxe.pool.total_deposits = mxe.user.deposit_amount + mxe.other.deposit_amount

\* C37: when requests for two different obligations of the pool were in
\* flight at the same time and both callbacks have been applied, in either
\* order, the pool aggregate held on chain reflects both operations: it is the
\* pool state the two circuits return one after the other.
C37_NoLostPoolUpdate ==
    (mxe.overlapped /\ \A o \in Obligations : mxe.flight[o].status = "applied")
        => mxe.pool = mxe.serial

\* no circuit run from the zero states leaves liquidity or debt behind
LiquidityStaysZero ==
    /\ mxe.pool.available_borrow_liquidity = 0
    /\ mxe.user.borrow_amount = 0
    /\ mxe.other.borrow_amount = 0

\* C38: borrow approval is reachable from a freshly initialized pool: once a
\* user has deposited collateral, a request for a positive amount that is
\* within the LTV limit at positive prices is approved by the borrow circuit.
C38_BorrowApprovalReachable ==
    \A amount \in CircuitAmounts \ {0}, cp \in Prices \ {0}, bp \in Prices \ {0}, ltv \in LtvBps :
        LET out == compute_confidential_borrow(amount, mxe.user, mxe.pool, cp, bp, ltv)
            new_debt == mxe.user.borrow_amount + amount
        IN (mxe.user.deposit_amount > 0
            /\ new_debt * bp * 10000 <= mxe.user.deposit_amount * cp * ltv)
           => out.flag

\* C39: a payer is never charged more than the debt cleared.  For a queued
\* repayment of an amount, whatever state the obligation holds, once the
\* callback has run on the output of the repay circuit, the amount taken by
\* repay_handler less what the callback returns to the payer is the amount
\* applied to the debt, min(amount, borrow_amount + accrued_interest): any
\* excess transferred up front is returned.
C39_PayerChargedDebtCleared ==
    \A o \in DOMAIN comps :
        (comps[o].kind = "repay" /\ comps[o].status = "queued")
        => \A s \in StartStates, p \in HandlerPayloads("repay") :
              LET amount == comps[o].arg
                  payer == comps[o].payer
                  out == compute_confidential_repay(amount, s[1], s[2])
                  r == RepayCallbackOut(o, p, TRUE)
                  returned == r.bor[payer] - bor[payer]
              IN (/\ Len(p.cts) >= 5
                  /\ (FirstByte(p.cts[5]) # 0) = out.flag)
                 => amount - returned
                      = Min(amount, s[1].borrow_amount + s[1].accrued_interest)

\* C40: in every reachable state each obligation's total_claimed is at most
\* its total_funded: a user never withdraws publicly more collateral than
\* they have funded.
C40_ClaimedWithinFunded ==
    \A u \in Users : obl[u].total_claimed <= obl[u].total_funded
====
